---- MODULE Spec2Model ----
(***************************************************************************)
(* A model of azadi: the safe writer and the chunk resolver of azadi-noweb *)
(* and the lexer, parser, AST builder and evaluator of azadi-macros.       *)
(*                                                                         *)
(* Text is modelled as a sequence of one-character strings, so that the    *)
(* code's scanning, slicing and matching are computed character by         *)
(* character.  File contents of the safe writer are TLC strings.           *)
(***************************************************************************)
EXTENDS Integers, Sequences, FiniteSets, TLC

(***************************************************************************)
(* Strings as sequences of characters.                                     *)
(***************************************************************************)
Min(a, b) == IF a < b THEN a ELSE b
Max(a, b) == IF a > b THEN a ELSE b

\* s[from..] (1-based), empty when from is past the end.
Drop(s, n) == SubSeq(s, n + 1, Len(s))
Take(s, n) == SubSeq(s, 1, Min(n, Len(s)))

StartsWithAt(s, i, p) ==
    /\ i + Len(p) - 1 <= Len(s)
    /\ \A k \in 1..Len(p) : s[i + k - 1] = p[k]

StartsWith(s, p) == StartsWithAt(s, 1, p)

EndsWith(s, p) == Len(p) <= Len(s) /\ StartsWithAt(s, Len(s) - Len(p) + 1, p)

\* str::contains(sub)
Contains(s, sub) == \E i \in 1..(Len(s) + 1) : StartsWithAt(s, i, sub)

IsWhite(c) == c \in {" ", "\t", "\n", "\r"}

RECURSIVE TrimStart(_)
TrimStart(s) == IF s # <<>> /\ IsWhite(Head(s)) THEN TrimStart(Tail(s)) ELSE s

RECURSIVE TrimEnd(_)
TrimEnd(s) ==
    IF s # <<>> /\ IsWhite(s[Len(s)]) THEN TrimEnd(SubSeq(s, 1, Len(s) - 1)) ELSE s

\* str::trim()
Trim(s) == TrimEnd(TrimStart(s))

\* The decimal digits of n, as format! writes them.
RECURSIVE Decimal(_)
Decimal(n) ==
    IF n < 10 THEN <<<<"0", "1", "2", "3", "4", "5", "6", "7", "8", "9">>[n + 1]>>
    ELSE Decimal(n \div 10) \o <<<<"0", "1", "2", "3", "4", "5", "6", "7", "8", "9">>[(n % 10) + 1]>>

(***************************************************************************)
(* Safe writer (crates/azadi-noweb/src/safe_writer.rs)                     *)
(***************************************************************************)
VARIABLES
    \* ---- azadi-noweb: SafeFileWriter and the directories it manages
    safe,          \* SafeFileWriter.safe
    gen_dir,       \* files under gen_dir, by relative path
    priv_dir,      \* files under priv_dir (staging)
    old_dir,       \* files under old_dir (previous copies and .hash sidecars)
    w_target,      \* per path: where the last before_write told the caller to write
    w_left,        \* history: what the last successful after_write left in gen_dir
    w_touched,     \* history: gen_dir/path was changed out of band since then
    w_last         \* history: the last call, its inputs, result and pre-state

wvars == <<safe, gen_dir, priv_dir, old_dir, w_target, w_left, w_touched, w_last>>

\* Longest file content the model writes, in bytes.
MaxContentLen == 2

RECURSIVE Bytes(_)
Bytes(n) == IF n = 0 THEN "" ELSE Bytes(n - 1) \o "x"

\* The file contents of the model: "", "x", "xx", ...
Contents == {Bytes(n) : n \in 0..MaxContentLen}

\* The paths handed to the writer; the last two are unsafe.
WriterPaths == {<<"a">>, <<".", ".", "/", "e">>, <<"/", "e">>}

NoFile == [is_file |-> FALSE, data |-> ""]
FileOf(c) == [is_file |-> TRUE, data |-> c]

\* Path::is_absolute on a Unix build: the path has a root.
IsAbsolute(f) == f # <<>> /\ f[1] = "/"

check_path(f) ==
    IF IsAbsolute(f) THEN "SecurityViolation"
    ELSE IF Contains(f, <<":">>) THEN "SecurityViolation"
    ELSE IF Contains(f, <<".", ".">>) THEN "SecurityViolation"
    ELSE "Ok"

\* BLAKE3 of a file's bytes as a hex string: collision-free, never empty,
\* never equal to the bytes hashed.
compute_hash(data) == "blake3:" \o data

\* old_path with ".hash" appended to its file name.
sidecar_path(old_path) == old_path \o <<".", "h", "a", "s", "h">>

\* Every file the model may find under old_dir.
OldPaths == WriterPaths \cup {sidecar_path(p) : p \in WriterPaths}

\* The recorded hash of old_file and the old_dir this leaves: the sidecar is
\* (re)written when it is missing or blank.  Sidecars are written by the
\* writer alone, so their text carries no surrounding whitespace to trim.
read_or_write_old_hash(od, old_file) ==
    LET sc == sidecar_path(old_file)
        h  == compute_hash(od[old_file].data)
    IN  IF od[sc].is_file /\ od[sc].data # ""
        THEN [hash |-> od[sc].data, old |-> od]
        ELSE [hash |-> h, old |-> [od EXCEPT ![sc] = FileOf(h)]]

\* before_write: the result, where the caller is to write, and old_dir after.
before_write(sf, gd, od, f) ==
    IF check_path(f) # "Ok"
    THEN [result |-> check_path(f), target |-> "none", old |-> od]
    ELSE IF ~sf
    THEN [result |-> "Ok", target |-> "gen", old |-> od]
    ELSE IF gd[f].is_file /\ od[f].is_file
    THEN LET r == read_or_write_old_hash(od, f)
         IN  IF compute_hash(gd[f].data) # r.hash
             THEN [result |-> "ModifiedExternally", target |-> "none", old |-> r.old]
             ELSE [result |-> "Ok", target |-> "priv", old |-> r.old]
    ELSE [result |-> "Ok", target |-> "priv", old |-> od]

\* after_write on a staged file that exists (the caller wrote it): the
\* published file is copied to old_dir and removed, the staged file is
\* renamed into gen_dir, and the sidecar gets the hash of old_dir's copy.
after_write(sf, gd, pd, od, f) ==
    IF check_path(f) # "Ok"
    THEN [result |-> check_path(f), gen |-> gd, priv |-> pd, old |-> od]
    ELSE IF ~sf
    THEN [result |-> "Ok", gen |-> gd, priv |-> pd, old |-> od]
    ELSE
    LET od1 == IF gd[f].is_file THEN [od EXCEPT ![f] = gd[f]] ELSE od
        gd1 == [gd EXCEPT ![f] = pd[f]]
        pd1 == [pd EXCEPT ![f] = NoFile]
        od2 == IF od1[f].is_file THEN od1 ELSE [od1 EXCEPT ![f] = gd1[f]]
        sc  == sidecar_path(f)
        od3 == [od2 EXCEPT ![sc] = FileOf(compute_hash(od2[f].data))]
    IN  [result |-> "Ok", gen |-> gd1, priv |-> pd1, old |-> od3]

WLast(op, f, c, bres, res) ==
    [op |-> op, path |-> f, content |-> c, before |-> bres, result |-> res,
     pre_gen |-> gen_dir, pre_old |-> old_dir, pre_priv |-> priv_dir,
     pre_left |-> w_left, pre_touched |-> w_touched]

WInit ==
    /\ safe \in BOOLEAN
    /\ gen_dir = [p \in WriterPaths |-> NoFile]
    /\ priv_dir = [p \in WriterPaths |-> NoFile]
    /\ old_dir = [p \in OldPaths |-> NoFile]
    /\ w_target = [p \in WriterPaths |-> "none"]
    /\ w_left = [p \in WriterPaths |-> NoFile]
    /\ w_touched = [p \in WriterPaths |-> FALSE]
    /\ w_last = [op |-> "none", path |-> <<>>, content |-> "", before |-> "none",
                 result |-> "none", pre_gen |-> gen_dir, pre_old |-> old_dir,
                 pre_priv |-> priv_dir, pre_left |-> w_left,
                 pre_touched |-> w_touched]

\* writer.before_write(f), opening a write cycle for f when it succeeds.
BeforeWrite(f) ==
    /\ w_target[f] = "none"
    /\ LET r == before_write(safe, gen_dir, old_dir, f)
       IN  /\ old_dir' = r.old
           /\ w_target' = [w_target EXCEPT ![f] = r.target]
           /\ w_last' = WLast("before_write", f, "", r.result, r.result)
    /\ UNCHANGED <<safe, gen_dir, priv_dir, w_left, w_touched>>

\* The caller writes content c to the path before_write returned.
WriteStaged(f, c) ==
    /\ w_target[f] \in {"priv", "gen"}
    /\ IF w_target[f] = "priv"
       THEN /\ priv_dir' = [priv_dir EXCEPT ![f] = FileOf(c)]
            /\ UNCHANGED gen_dir
       ELSE /\ gen_dir' = [gen_dir EXCEPT ![f] = FileOf(c)]
            /\ UNCHANGED priv_dir
    /\ w_target' = [w_target EXCEPT ![f] = "written"]
    /\ w_last' = WLast("write", f, c, "Ok", "Ok")
    /\ UNCHANGED <<safe, old_dir, w_left, w_touched>>

\* writer.after_write(f), closing the cycle.
AfterWrite(f) ==
    /\ w_target[f] = "written"
    /\ LET r == after_write(safe, gen_dir, priv_dir, old_dir, f)
       IN  /\ gen_dir' = r.gen
           /\ priv_dir' = r.priv
           /\ old_dir' = r.old
           /\ w_last' = WLast("after_write", f, r.gen[f].data, "Ok", r.result)
           /\ w_left' = [w_left EXCEPT ![f] = r.gen[f]]
    /\ w_target' = [w_target EXCEPT ![f] = "none"]
    /\ w_touched' = [w_touched EXCEPT ![f] = FALSE]
    /\ UNCHANGED safe

\* Somebody edits gen_dir/f by hand: the file exists and its bytes change.
ExternalModify(f, c) ==
    /\ gen_dir[f].is_file
    /\ gen_dir[f].data # c
    /\ gen_dir' = [gen_dir EXCEPT ![f] = FileOf(c)]
    /\ w_touched' = [w_touched EXCEPT ![f] = TRUE]
    /\ w_last' = WLast("external", f, c, "none", "Ok")
    /\ UNCHANGED <<safe, priv_dir, old_dir, w_target, w_left>>

\* The chunk names handed to ChunkWriter::write_chunk.
WriterChunkNames ==
    {<<"@", "f", "i", "l", "e", " ">> \o p : p \in WriterPaths} \cup {<<"n">>}

\* write_chunk without the `?` on before_write: the error is reported, and
\* the content is staged and promoted all the same.
write_chunk_ignoring_error(sf, gd, pd, od, chunk_name, c) ==
    IF ~StartsWith(chunk_name, <<"@", "f", "i", "l", "e", " ">>)
    THEN [result |-> "Ok", before |-> "none", gen |-> gd, priv |-> pd, old |-> od]
    ELSE
    LET path_str == Trim(Drop(chunk_name, 5))
        b == before_write(sf, gd, od, path_str)
        pd1 == IF path_str \in DOMAIN pd /\ b.result # "SecurityViolation"
               THEN [pd EXCEPT ![path_str] = FileOf(c)] ELSE pd
        a == IF b.result = "SecurityViolation"
             THEN [result |-> b.result, gen |-> gd, priv |-> pd, old |-> b.old]
             ELSE after_write(sf, gd, pd1, b.old, path_str)
    IN  [result |-> b.result, before |-> b.result,
         gen |-> a.gen, priv |-> a.priv, old |-> a.old]

\* ChunkWriter::write_chunk(chunk_name, content): one whole write attempt.
\* The content lines are written as one string c.
write_chunk(sf, gd, pd, od, chunk_name, c) ==
    IF ~StartsWith(chunk_name, <<"@", "f", "i", "l", "e", " ">>)
    THEN [result |-> "Ok", before |-> "none", gen |-> gd, priv |-> pd, old |-> od]
    ELSE
    LET path_str == Trim(Drop(chunk_name, 5))
        b == before_write(sf, gd, od, path_str)
    IN  IF b.result # "Ok"
        THEN [result |-> b.result, before |-> b.result,
              gen |-> gd, priv |-> pd, old |-> b.old]
        ELSE
        LET gd1 == IF b.target = "gen" THEN [gd EXCEPT ![path_str] = FileOf(c)] ELSE gd
            pd1 == IF b.target = "priv" THEN [pd EXCEPT ![path_str] = FileOf(c)] ELSE pd
            a == after_write(sf, gd1, pd1, b.old, path_str)
        IN  [result |-> a.result, before |-> "Ok",
             gen |-> a.gen, priv |-> a.priv, old |-> a.old]

WriteChunk(chunk_name, c) ==
    LET f == Trim(Drop(chunk_name, 5))
        r == write_chunk(safe, gen_dir, priv_dir, old_dir, chunk_name, c)
        is_file_chunk == StartsWith(chunk_name, <<"@", "f", "i", "l", "e", " ">>)
    IN  /\ is_file_chunk => w_target[f] = "none"
        /\ gen_dir' = r.gen
        /\ priv_dir' = r.priv
        /\ old_dir' = r.old
        /\ w_last' = WLast("write_chunk", IF is_file_chunk THEN f ELSE <<>>, c,
                           r.before, r.result)
        /\ IF is_file_chunk /\ r.result = "Ok"
           THEN /\ w_left' = [w_left EXCEPT ![f] = r.gen[f]]
                /\ w_touched' = [w_touched EXCEPT ![f] = FALSE]
           ELSE UNCHANGED <<w_left, w_touched>>
        /\ UNCHANGED <<safe, w_target>>

WNext ==
    \/ \E n \in WriterChunkNames, c \in Contents : WriteChunk(n, c)
    \/ \E f \in WriterPaths : BeforeWrite(f)
    \/ \E f \in WriterPaths, c \in Contents : WriteStaged(f, c)
    \/ \E f \in WriterPaths : AfterWrite(f)
    \/ \E f \in WriterPaths, c \in Contents : ExternalModify(f, c)


(***************************************************************************)
(* Claims about the safe writer.                                           *)
(***************************************************************************)
\* The last call ran before_write on a path of the model.
WLastRanBeforeWrite ==
    /\ w_last.op \in {"before_write", "write_chunk"}
    /\ w_last.before # "none"
    /\ w_last.path \in WriterPaths

\* C1: in safe mode, when gen_dir/path was changed out of band, to content
\* other than what the last successful after_write left there, the next
\* before_write for that path returns ModifiedExternally.
C1_ExternalChangeDetected ==
    (/\ safe
     /\ WLastRanBeforeWrite
     /\ w_last.pre_left[w_last.path].is_file
     /\ w_last.pre_touched[w_last.path]
     /\ w_last.pre_gen[w_last.path].is_file
     /\ w_last.pre_gen[w_last.path] # w_last.pre_left[w_last.path])
    => w_last.before = "ModifiedExternally"

C3_SameContentCycleSucceeds ==
    (/\ safe
     /\ w_last.op = "write_chunk"
     /\ w_last.path \in WriterPaths
     /\ w_last.pre_left[w_last.path] = FileOf(w_last.content)
     /\ w_last.pre_gen[w_last.path] = FileOf(w_last.content)
     /\ ~w_last.pre_touched[w_last.path])
    => /\ w_last.result = "Ok"
       /\ gen_dir[w_last.path] = FileOf(w_last.content)


\* The path of the last call holds what the writer left there: nobody
\* changed it out of band.
WLastPathUntouched ==
    /\ ~w_last.pre_touched[w_last.path]
    /\ w_last.pre_gen[w_last.path] = w_last.pre_left[w_last.path]

\* C23: in safe mode, a before_write for a path that was not modified out
\* of band succeeds, after any number of write cycles with any contents: it
\* never returns ModifiedExternally.
C23_NoFalseAlarm ==
    (safe /\ WLastRanBeforeWrite /\ WLastPathUntouched)
    => w_last.before # "ModifiedExternally"

\* A third cycle refused, the second having changed the content, with no
\* change out of band.
C23_ThirdCycleRefused ==
    /\ safe
    /\ w_last.op = "write_chunk"
    /\ w_last.path = <<"a">>
    /\ WLastPathUntouched
    /\ w_last.pre_gen[w_last.path].is_file
    /\ w_last.pre_old[w_last.path].is_file
    /\ w_last.pre_old[w_last.path] # w_last.pre_gen[w_last.path]
    /\ w_last.result = "ModifiedExternally"

(***************************************************************************)
(* Chunk store (crates/azadi-noweb/src/noweb.rs)                           *)
(***************************************************************************)
VARIABLES
    store,         \* ChunkStore: chunks, file_chunks, file_names
    s_reached,     \* history: per chunk name, times expansion entered it since reset
    s_reads,       \* history: number of read calls made
    s_expands,     \* history: number of top-level expand calls made
    s_last         \* history: the last call, its inputs and result

svars == <<store, s_reached, s_reads, s_expands, s_last>>

\* Length of the run of characters matching \s from position i on.
RECURSIVE SpanWhite(_, _)
SpanWhite(s, i) ==
    IF i <= Len(s) /\ IsWhite(s[i]) THEN 1 + SpanWhite(s, i + 1) ELSE 0

\* Length of the run of characters matching [ \t] from position i on.
RECURSIVE SpanBlank(_, _)
SpanBlank(s, i) ==
    IF i <= Len(s) /\ s[i] \in {" ", "\t"} THEN 1 + SpanBlank(s, i + 1) ELSE 0

\* Length of the run of characters matching [^\s] from position i on.
RECURSIVE SpanNonWhite(_, _)
SpanNonWhite(s, i) ==
    IF i <= Len(s) /\ ~IsWhite(s[i]) THEN 1 + SpanNonWhite(s, i + 1) ELSE 0

\* Length of the run of characters matching [^\s>] from position i on.
RECURSIVE SpanName(_, _)
SpanName(s, i) ==
    IF i <= Len(s) /\ ~IsWhite(s[i]) /\ s[i] # ">"
    THEN 1 + SpanName(s, i + 1) ELSE 0

\* Where a failed match leaves the scan: past the end, where nothing matches.
PastEnd(s) == Len(s) + 2

\* The position after the optional comment marker (?:#|//)? at position i.
SkipComment(s, i) ==
    IF StartsWithAt(s, i, <<"#">>) THEN i + 1
    ELSE IF StartsWithAt(s, i, <<"/", "/">>) THEN i + 2
    ELSE i

\* The position after [ \t]* and after \s* at position i.
SkipBlank(s, i) == i + SpanBlank(s, i)
SkipWhite(s, i) == i + SpanWhite(s, i)

\* The position after the open delimiter "<<" at position i.
SkipOpenDelim(s, i) == IF StartsWithAt(s, i, <<"<", "<">>) THEN i + 2 ELSE PastEnd(s)

\* The position after (?:word[ \t]+)? at position i.
SkipWordBlank(s, i, word) ==
    IF StartsWithAt(s, i, word) /\ SpanBlank(s, i + Len(word)) > 0
    THEN i + Len(word) + SpanBlank(s, i + Len(word))
    ELSE i

\* The position after (?:word\s+)? at position i.
SkipWordWhite(s, i, word) ==
    IF StartsWithAt(s, i, word) /\ SpanWhite(s, i + Len(word)) > 0
    THEN i + Len(word) + SpanWhite(s, i + Len(word))
    ELSE i

\* The position after (?:@file\s+|@reversed\s+)? at position i.
SkipSlotKeyword(s, i) ==
    IF SkipWordWhite(s, i, <<"@", "f", "i", "l", "e">>) # i THEN SkipWordWhite(s, i, <<"@", "f", "i", "l", "e">>)
    ELSE SkipWordWhite(s, i, <<"@", "r", "e", "v", "e", "r", "s", "e", "d">>)

NoMatch == [matched |-> FALSE, indent |-> <<>>, name |-> <<>>]

SetMax(S) == CHOOSE e \in S : \A e2 \in S : e2 <= e
SetMin(S) == CHOOSE e \in S : \A e2 \in S : e <= e2

\* The end of open_re, ([^\s]+)>>= with the name starting at position i:
\* the group is greedy, the longest run of non-blanks that ">>=" follows.
OpenMatch(line, n1, i) ==
    LET ends == {e \in 1..SpanNonWhite(line, i) : StartsWithAt(line, i + e, <<">", ">", "=">>)}
    IN  IF ends # {}
        THEN [matched |-> TRUE, indent |-> Take(line, n1),
              name |-> SubSeq(line, i, i + SetMax(ends) - 1)]
        ELSE NoMatch

\* open_re:  ^(\s*)(?:#|//)?[ \t]*<<(?:@replace[ \t]+)?(?:@file[ \t]+)?([^\s]+)>>=
open_re(line) ==
    OpenMatch(line, SpanWhite(line, 1),
        SkipWordBlank(line,
            SkipWordBlank(line,
                SkipOpenDelim(line,
                    SkipBlank(line, SkipComment(line, SpanWhite(line, 1) + 1))),
                <<"@", "r", "e", "p", "l", "a", "c", "e">>),
            <<"@", "f", "i", "l", "e">>))

\* The end of slot_re, ([^\s>]+)>>\s*$ with the name starting at position i.
SlotMatch(line, n1, i) ==
    LET run == SpanName(line, i)
    IN  IF /\ run > 0
           /\ StartsWithAt(line, i + run, <<">", ">">>)
           /\ SkipWhite(line, i + run + 2) = Len(line) + 1
        THEN [matched |-> TRUE, indent |-> Take(line, n1),
              name |-> SubSeq(line, i, i + run - 1)]
        ELSE NoMatch

\* slot_re:  ^(\s*)(?:#|//)?\s*<<(?:@file\s+|@reversed\s+)?([^\s>]+)>>\s*$
\* Each part of the pattern is matched from the position the part before it
\* came to.
slot_re(line) ==
    CHOOSE m \in
        {SlotMatch(line, n1 - 1, k) :
            n1 \in {SpanWhite(line, 1) + 1},
            k \in {SkipSlotKeyword(line, d) :
                      d \in {SkipOpenDelim(line, w) :
                                w \in {SkipWhite(line, c) :
                                          c \in {SkipComment(line, b) :
                                                    b \in {SpanWhite(line, 1) + 1}}}}}} :
        TRUE

\* close_re:  ^(?:#|//)?[ \t]*@\s*$
CloseMatch(line, i) ==
    StartsWithAt(line, i, <<"@">>) /\ SkipWhite(line, i + 1) = Len(line) + 1

close_re(line) == CloseMatch(line, SkipBlank(line, SkipComment(line, 1)))

\* The position of the first c in s, or one past the end.
FirstIndexOf(s, c) ==
    IF \E k \in 1..Len(s) : s[k] = c
    THEN SetMin({k \in 1..Len(s) : s[k] = c})
    ELSE Len(s) + 1

\* A line without the "\r" that stood before its "\n".
StripCr(raw, terminated) ==
    IF terminated /\ raw # <<>> /\ raw[Len(raw)] = "\r"
    THEN SubSeq(raw, 1, Len(raw) - 1) ELSE raw

\* str::lines(): the text split at "\n", a "\r" before the "\n" dropped, and
\* no empty last line after a final "\n".
RECURSIVE Lines(_)
LinesFrom(text, k) ==
    <<StripCr(SubSeq(text, 1, k - 1), k <= Len(text))>> \o Lines(Drop(text, k))

Lines(text) == IF text = <<>> THEN <<>> ELSE LinesFrom(text, FirstIndexOf(text, "\n"))

\* Path::components(): the pieces between "/", empty pieces dropped.
RECURSIVE Components(_)
ComponentsFrom(path, k) ==
    (IF k = 1 THEN <<>> ELSE <<SubSeq(path, 1, k - 1)>>) \o Components(Drop(path, k))

Components(path) ==
    IF path = <<>> THEN <<>> ELSE ComponentsFrom(path, FirstIndexOf(path, "/"))

HasParentDir(components) == \E i \in 1..Len(components) : components[i] = <<".", ".">>

path_is_safe(path) ==
    IF IsAbsolute(path) THEN "SecurityViolation"
    ELSE IF Contains(path, <<":">>) THEN "SecurityViolation"
    ELSE IF HasParentDir(Components(path)) THEN "SecurityViolation"
    ELSE "Ok"

\* ChunkStore::new: an empty store.
NewStore == [chunks |-> <<>>, file_chunks |-> {}, file_names |-> <<>>]

NewNamedChunk == [definitions |-> <<>>, references |-> 0]

NewChunkDef(base_indent, file_idx, line) ==
    [content |-> <<>>, base_indent |-> base_indent,
     file_idx |-> file_idx, line |-> line]

\* HashMap::remove and HashMap::insert on the chunk map.
RemoveChunk(chunks, name) == [n \in (DOMAIN chunks) \ {name} |-> chunks[n]]
PutChunk(chunks, name, nc) ==
    [n \in (DOMAIN chunks) \cup {name} |-> IF n = name THEN nc ELSE chunks[n]]

add_file_name(self, fname) ==
    [idx |-> Len(self.file_names),
     self |-> [self EXCEPT !.file_names = Append(@, fname)]]

validate_chunk_name(chunk_name, line) ==
    IF Contains(line, <<"@", "f", "i", "l", "e">>)
    THEN path_is_safe(chunk_name) = "Ok"
    ELSE chunk_name # <<>> /\ \A i \in 1..Len(chunk_name) : ~IsWhite(chunk_name[i])

NoCurrent == <<>>

\* The locals of read at the head of its loop, and with them, as history,
\* the numbers of the opening lines refused (those `_err_msg` was built
\* for) and of the lines pushed to a definition.
ReadLocals(chunks, current_chunk) ==
    [chunks |-> chunks, current_chunk |-> current_chunk,
     rejected |-> <<>>, recorded |-> {}]

\* The chunk map with @replace ignored.
without_replace_ignored(chunks, full_name, is_replace) == chunks

\* read, `if is_replace { self.chunks.remove(&full_name); }`, for a file
\* chunk and for any other alike.
without_replaced(chunks, full_name, is_replace) ==
    IF is_replace THEN RemoveChunk(chunks, full_name) ELSE chunks

\* The new definition put before those the chunk has.
push_definition_first(definitions, def) == <<def>> \o definitions

\* read, borrowed.definitions.push(ChunkDef::new(..))
push_definition(definitions, def) == Append(definitions, def)

\* read, on an opening line whose name passed validation: the chunk is
\* dropped (a second definition of a file chunk) or gets a new definition.
define_chunk(st, file_idx, line_no, base_indent, full_name, is_replace) ==
    LET kept == without_replaced(st.chunks, full_name, is_replace)
        nc   == IF full_name \in DOMAIN kept THEN kept[full_name] ELSE NewNamedChunk
    IN  IF /\ StartsWith(full_name, <<"@", "f", "i", "l", "e", " ">>)
           /\ full_name \in DOMAIN st.chunks
           /\ ~is_replace
        \* FileChunkRedefinition: the message is built and dropped
        THEN [st EXCEPT !.chunks = RemoveChunk(@, full_name),
                        !.rejected = Append(@, line_no)]
        ELSE [st EXCEPT !.chunks = PutChunk(kept, full_name,
                            [nc EXCEPT !.definitions =
                                push_definition(@, NewChunkDef(base_indent, file_idx, line_no))]),
                        !.current_chunk = <<full_name, Len(nc.definitions)>>]

\* read, on an opening line: full_name is the name with "@file " in front
\* when the line holds "@file" anywhere.
open_chunk(st, line, file_idx, line_no, base_indent, full_name) ==
    IF validate_chunk_name(full_name, line)
    THEN define_chunk(st, file_idx, line_no, base_indent, full_name,
                      Contains(line, <<"@", "r", "e", "p", "l", "a", "c", "e">>))
    ELSE st

\* One iteration of the loop of read: st is [chunks, current_chunk], line_no
\* the line's 0-based number, caps what open_re captured.
read_line_caps(st, line, file_idx, line_no, caps) ==
    IF caps.matched
    THEN open_chunk(st, line, file_idx, line_no, Len(caps.indent),
                    IF Contains(line, <<"@", "f", "i", "l", "e">>) THEN <<"@", "f", "i", "l", "e", " ">> \o caps.name
                    ELSE caps.name)
    ELSE IF close_re(line) THEN [st EXCEPT !.current_chunk = NoCurrent]
    ELSE IF st.current_chunk # NoCurrent /\ st.current_chunk[1] \in DOMAIN st.chunks
         THEN [st EXCEPT !.chunks[st.current_chunk[1]]
                              .definitions[st.current_chunk[2] + 1]
                              .content = Append(@, line \o <<"\n">>),
                        !.recorded = @ \cup {line_no}]
         ELSE st

read_line(st, line, file_idx, line_no) ==
    read_line_caps(st, line, file_idx, line_no, open_re(line))

RECURSIVE read_lines(_, _, _, _)
read_lines(st, lines, file_idx, k) ==
    IF k > Len(lines) THEN st
    ELSE read_lines(read_line(st, lines[k], file_idx, k - 1), lines, file_idx, k + 1)

\* The end of read: the chunk map stored and file_chunks rebuilt from it.
read_done(self, chunks) ==
    [self EXCEPT !.chunks = chunks,
                 !.file_chunks = {n \in DOMAIN chunks : StartsWith(n, <<"@", "f", "i", "l", "e", " ">>)}]

\* The loop of read over the whole text.
read_loop(self, text, file_idx) ==
    read_lines(ReadLocals(self.chunks, NoCurrent), Lines(text), file_idx, 1)

\* ChunkStore::read
read(self, text, file_idx) ==
    read_done(self, read_loop(self, text, file_idx).chunks)

\* The error values of expansion: kind, the chunk named, and where.
ExpandError(self, kind, chunk_name, location) ==
    [err |-> kind, chunk |-> chunk_name,
     file_name |-> IF location.file_idx < Len(self.file_names)
                   THEN self.file_names[location.file_idx + 1] ELSE <<>>,
     line |-> location.line]

\* What expand_with_depth hands back: the Result, and what it did to the
\* in-progress list and to the reference counters.
ExpandReturn(e, lines, seen, chunks) ==
    [err |-> e.err, chunk |-> e.chunk, file_name |-> e.file_name, line |-> e.line,
     lines |-> lines, seen |-> seen, chunks |-> chunks]

NoError == [err |-> "Ok", chunk |-> <<>>, file_name |-> <<>>, line |-> 0]

MAX_DEPTH == 100

\* The depth test taken at the limit itself, one reference early.
depth_exceeded_at_limit(depth) == depth >= MAX_DEPTH

\* depth > MAX_DEPTH
depth_exceeded(depth) == depth > MAX_DEPTH

\* seen.iter().any(|(nm, _)| nm == chunk_name)
seen_contains(seen, chunk_name) == \E i \in 1..Len(seen) : seen[i][1] = chunk_name

\* seen.pop() left undone.
pop_seen_skipped(seen) == seen

\* seen.pop()
pop_seen(seen) == SubSeq(seen, 1, Len(seen) - 1)

\* The indent of a referenced chunk, the caller's indent lost.
new_indent_relative_only(target_indent, relative_indent) == relative_indent

\* format!("{}{}", target_indent, relative_indent)
new_indent(target_indent, relative_indent) == target_indent \o relative_indent

Reverse(s) == [i \in 1..Len(s) |-> s[Len(s) + 1 - i]]

RECURSIVE expand_with_depth(_, _, _, _, _, _, _, _)
RECURSIVE expand_def(_, _, _, _, _, _, _, _)
RECURSIVE expand_defs(_, _, _, _, _, _, _, _)

\* &add_indent[def.base_indent..], or "" when add_indent is no longer
relative_indent(add_indent, base_indent) ==
    IF Len(add_indent) > base_indent THEN Drop(add_indent, base_indent) ELSE <<>>

\* &line[def.base_indent..], or the line when it is no longer
line_indent(line, base_indent) ==
    IF Len(line) > base_indent THEN Drop(line, base_indent) ELSE line

\* After a reference on line k: its error returned, or its lines appended
\* and the loop continued.
expand_def_extend(self, def, k, target_indent, depth, def_output, expanded) ==
    IF expanded.err # "Ok" THEN expanded
    ELSE expand_def(self, expanded.chunks, def, k + 1, target_indent, depth,
                    expanded.seen, def_output \o expanded.lines)

\* Line k of a definition, caps being what slot_re captured on it.
expand_def_line(self, chunks, def, k, target_indent, depth, seen, def_output, caps) ==
    IF caps.matched
    THEN expand_def_extend(self, def, k, target_indent, depth, def_output,
             expand_with_depth(self, chunks, Trim(caps.name),
                 new_indent(target_indent,
                            relative_indent(caps.indent, def.base_indent)),
                 depth + 1, seen,
                 [file_idx |-> def.file_idx, line |-> def.line + k - 1],
                 Contains(def.content[k], <<"@", "r", "e", "v", "e", "r", "s", "e", "d">>)))
    ELSE expand_def(self, chunks, def, k + 1, target_indent, depth, seen,
             Append(def_output,
                    target_indent \o line_indent(def.content[k], def.base_indent)))

\* The inner loop of expand_with_depth: the lines of one definition from
\* line k on; def_output holds the lines produced so far.
expand_def(self, chunks, def, k, target_indent, depth, seen, def_output) ==
    IF k > Len(def.content)
    THEN ExpandReturn(NoError, def_output, seen, chunks)
    ELSE expand_def_line(self, chunks, def, k, target_indent, depth, seen,
                         def_output, slot_re(def.content[k]))

\* After the j-th definition: its error returned, or its lines appended and
\* the loop continued.
expand_defs_extend(self, defs, j, target_indent, depth, result, d) ==
    IF d.err # "Ok" THEN d
    ELSE expand_defs(self, d.chunks, defs, j + 1, target_indent, depth,
                     d.seen, result \o d.lines)

\* The outer loop of expand_with_depth: the definitions from the j-th on.
expand_defs(self, chunks, defs, j, target_indent, depth, seen, result) ==
    IF j > Len(defs)
    THEN ExpandReturn(NoError, result, seen, chunks)
    ELSE expand_defs_extend(self, defs, j, target_indent, depth, result,
             expand_def(self, chunks, defs[j], 1, target_indent, depth, seen, <<>>))

\* The end of expand_with_depth: on success the chunk leaves the list.
expand_leave(r) == IF r.err # "Ok" THEN r ELSE [r EXCEPT !.seen = pop_seen(@)]

\* The definitions in the order they are expanded.
definitions_iter(nc, reversed_mode) ==
    IF reversed_mode THEN Reverse(nc.definitions) ELSE nc.definitions

\* expand_with_depth: chunks carries the reference counters, which
\* inc_references bumps through the RefCell even when the call then fails.
expand_with_depth(self, chunks, chunk_name, target_indent, depth, seen, reference_location, reversed_mode) ==
    IF depth_exceeded(depth)
    THEN ExpandReturn(ExpandError(self, "RecursionLimit", chunk_name, reference_location),
                      <<>>, seen, chunks)
    ELSE IF seen_contains(seen, chunk_name)
    THEN ExpandReturn(ExpandError(self, "RecursiveReference", chunk_name, reference_location),
                      <<>>, seen, chunks)
    ELSE IF chunk_name \notin DOMAIN chunks
    THEN ExpandReturn(ExpandError(self, "UndefinedChunk", chunk_name, reference_location),
                      <<>>, seen, chunks)
    ELSE expand_leave(
             expand_defs(self, [chunks EXCEPT ![chunk_name].references = @ + 1],
                         definitions_iter(chunks[chunk_name], reversed_mode),
                         1, target_indent, depth,
                         Append(seen, <<chunk_name, reference_location>>), <<>>))

\* ChunkStore::expand
expand(self, chunk_name, indent) ==
    expand_with_depth(self, self.chunks, chunk_name, indent, 0, <<>>,
                      [file_idx |-> 0, line |-> 0], FALSE)

\* ChunkStore::reset
get_file_chunks(self) == self.file_chunks

has_chunk(self, name) == name \in DOMAIN self.chunks

reset(self) == [self EXCEPT !.chunks = <<>>, !.file_chunks = {}, !.file_names = <<>>]

(***************************************************************************)
(* The reference graph of a store, walked without producing any text: what *)
(* an expansion reaches, in the order it reaches it.                       *)
(***************************************************************************)
\* The reference a line makes, if it makes one.
SlotOf(line, caps) ==
    IF caps.matched
    THEN <<[name |-> Trim(caps.name), reversed |-> Contains(line, <<"@", "r", "e", "v", "e", "r", "s", "e", "d">>)]>>
    ELSE <<>>

\* The references among the lines of one definition, from line k on.
RECURSIVE SlotsOf(_, _)
SlotsOf(content, k) ==
    IF k > Len(content) THEN <<>>
    ELSE SlotOf(content[k], slot_re(content[k])) \o SlotsOf(content, k + 1)

RECURSIVE RefsOfDefs(_, _)
RefsOfDefs(defs, j) ==
    IF j > Len(defs) THEN <<>>
    ELSE SlotsOf(defs[j].content, 1) \o RefsOfDefs(defs, j + 1)

\* The references of a chunk in the order an expansion meets them.
RefsOf(nc, reversed) ==
    RefsOfDefs(IF reversed THEN Reverse(nc.definitions) ELSE nc.definitions, 1)

RECURSIVE Walk(_, _, _, _)
RECURSIVE WalkRefs(_, _, _, _)

WalkEnd(kind, chunk, entered) == [kind |-> kind, chunk |-> chunk, entered |-> entered]

\* The walk w with the chunks in entered put before those it entered.
WalkAfter(entered, w) == [w EXCEPT !.entered = entered \o @]

\* Walk from a chunk with the given chunks in progress above it: how the
\* walk ends ("ok", "limit", "cycle" or "undefined"), at which chunk, and
\* the chunks it entered, in order.  The chunks in progress are as many as
\* the chunk is deep.
Walk(chunks, name, in_progress, reversed) ==
    IF Cardinality(in_progress) > MAX_DEPTH THEN WalkEnd("limit", name, <<>>)
    ELSE IF name \in in_progress THEN WalkEnd("cycle", name, <<>>)
    ELSE IF name \notin DOMAIN chunks THEN WalkEnd("undefined", name, <<>>)
    ELSE WalkAfter(<<name>>,
                   WalkRefs(chunks, RefsOf(chunks[name], reversed), 1,
                            in_progress \cup {name}))

\* The walk of the references after the k-th, w being the walk of the k-th.
WalkOn(chunks, refs, k, in_progress, w) ==
    IF w.kind # "ok" THEN w
    ELSE WalkAfter(w.entered, WalkRefs(chunks, refs, k + 1, in_progress))

WalkRefs(chunks, refs, k, in_progress) ==
    IF k > Len(refs) THEN WalkEnd("ok", <<>>, <<>>)
    ELSE WalkOn(chunks, refs, k, in_progress,
                Walk(chunks, refs[k].name, in_progress, refs[k].reversed))

TimesEntered(w, name) == Cardinality({i \in 1..Len(w.entered) : w.entered[i] = name})

(***************************************************************************)
(* The texts read and the expansions asked for.                            *)
(***************************************************************************)
\* t refers to a twice directly and once through b (defined indented and
\* behind a comment marker).
Text_tree ==
    <<"<", "<", "t", ">", ">", "=", "\n", " ", "<", "<", "a", ">", ">", "\n", "<", "<", "b", ">", ">", "\n", "<", "<", "a", ">", ">", "\n", "@", "\n">> \o
    <<" ", " ", "#", " ", "<", "<", "b", ">", ">", "=", "\n", " ", " ", "\t", "<", "<", "a", ">", ">", "\n", " ", " ", "y", "\n", " ", " ", "@", "\n">> \o
    <<"<", "<", "a", ">", ">", "=", "\n", "x", "\n", "@", "\n">>

\* r refers to itself; p and q refer to each other, p after referring to a.
Text_cycles ==
    <<"<", "<", "r", ">", ">", "=", "\n", "<", "<", "r", ">", ">", "\n", "@", "\n">> \o
    <<"<", "<", "p", ">", ">", "=", "\n", "<", "<", "a", ">", ">", "\n", "<", "<", "q", ">", ">", "\n", "@", "\n">> \o
    <<"<", "<", "q", ">", ">", "=", "\n", "\t", "<", "<", "p", ">", ">", "\n", "@", "\n">>

\* a replaced and then given a second definition.
Text_replace ==
    <<"<", "<", "@", "r", "e", "p", "l", "a", "c", "e", " ", "a", ">", ">", "=", "\n", "z", "\n", "@", "\n">> \o
    <<"<", "<", "a", ">", ">", "=", "\n", "w", "\n", "@", "\n">>

\* File chunks: a plain name, and names that leave the output directory.
Text_files ==
    <<"<", "<", "@", "f", "i", "l", "e", " ", "o", ">", ">", "=", "\n", " ", " ", "<", "<", "@", "r", "e", "v", "e", "r", "s", "e", "d", " ", "a", ">", ">", "\n", "@", "\n">> \o
    <<"<", "<", "@", "f", "i", "l", "e", " ", ".", ".", "/", "e", ">", ">", "=", "\n", "x", "\n", "@", "\n">> \o
    <<"<", "<", "@", "f", "i", "l", "e", " ", "/", "e", ">", ">", "=", "\n", "x", "\n", "@", "\n">> \o
    <<"<", "<", "@", "f", "i", "l", "e", " ", "a", "/", ".", ".", "/", "b", ">", ">", "=", "\n", "x", "\n", "@", "\n">> \o
    <<"<", "<", "@", "f", "i", "l", "e", " ", "c", ":", "d", ">", ">", "=", "\n", "x", "\n", "@", "\n">>

\* a defined twice more.
Text_more ==
    <<"<", "<", "a", ">", ">", "=", "\n", "u", "\n", "@", "\n">> \o
    <<"<", "<", "a", ">", ">", "=", "\n", "v", "\n", "@", "\n">>

\* The file chunk o defined, and opened again while k is open.
Text_redefine ==
    <<"<", "<", "@", "f", "i", "l", "e", " ", "o", ">", ">", "=", "\n", "o", "n", "e", "\n", "@", "\n">> \o
    <<"<", "<", "k", ">", ">", "=", "\n", "k", "a", "y", "\n">> \o
    <<"<", "<", "@", "f", "i", "l", "e", " ", "o", ">", ">", "=", "\n", "t", "w", "o", "\n", "@", "\n">>

\* The file chunk o defined and then replaced.
Text_refile ==
    <<"<", "<", "@", "f", "i", "l", "e", " ", "o", ">", ">", "=", "\n", "o", "n", "e", "\n", "@", "\n">> \o
    <<"<", "<", "@", "r", "e", "p", "l", "a", "c", "e", " ", "@", "f", "i", "l", "e", " ", "o", ">", ">", "=", "\n", "t", "w", "o", "\n", "@", "\n">>

\* i opened at an indent of two, with content lines indented as much, less
\* and not at all.
Text_dedent ==
    <<" ", " ", "<", "<", "i", ">", ">", "=", "\n", " ", " ", "i", "n", "\n", " ", "a", "b", "\n", "x", "y", "z", "\n", " ", " ", "@", "\n">>

Texts == {[file_name |-> <<"t", "r", "e", "e", ".", "n", "w">>, text |-> Text_tree],
          [file_name |-> <<"c", "y", "c", "l", "e", "s", ".", "n", "w">>, text |-> Text_cycles],
          [file_name |-> <<"r", "e", "p", "l", "a", "c", "e", ".", "n", "w">>, text |-> Text_replace],
          [file_name |-> <<"f", "i", "l", "e", "s", ".", "n", "w">>, text |-> Text_files],
          [file_name |-> <<"m", "o", "r", "e", ".", "n", "w">>, text |-> Text_more],
          [file_name |-> <<"r", "e", "d", "e", "f", "i", "n", "e", ".", "n", "w">>, text |-> Text_redefine],
          [file_name |-> <<"r", "e", "f", "i", "l", "e", ".", "n", "w">>, text |-> Text_refile],
          [file_name |-> <<"d", "e", "d", "e", "n", "t", ".", "n", "w">>, text |-> Text_dedent]}

ExpandNames == {<<"t">>, <<"a">>, <<"p">>, <<"r">>, <<"@", "f", "i", "l", "e", " ", "o">>, <<"i">>}

\* Longest indent handed to expand, in characters.
MaxIndentLen == 2

IndentPattern == <<" ", "\t", " ", "\t", " ", "\t", " ", "\t">>

\* "", " ", " \t", ...
Indents == {Take(IndentPattern, n) : n \in 0..MaxIndentLen}

\* Most read calls and most top-level expand calls in a run.
MaxReads == 2
MaxExpands == 2

\* The last call: for an expansion what it returned, for a read (which
\* returns nothing) the text and what its loop refused and pushed.
SLast(op, name, indent, r) ==
    [op |-> op, name |-> name, indent |-> indent,
     err |-> r.err, chunk |-> r.chunk, file_name |-> r.file_name, line |-> r.line,
     lines |-> r.lines,
     text |-> <<>>, rejected |-> <<>>, recorded |-> {}]

SLastRead(t, st) ==
    [SLast("read", t.file_name, <<>>, ExpandReturn(NoError, <<>>, <<>>, <<>>))
        EXCEPT !.text = t.text, !.rejected = st.rejected, !.recorded = st.recorded]

SInit ==
    /\ store = NewStore
    /\ s_reached = <<>>
    /\ s_reads = 0
    /\ s_expands = 0
    /\ s_last = SLast("new", <<>>, <<>>, ExpandReturn(NoError, <<>>, <<>>, <<>>))

\* Clip::read: add_file_name, then ChunkStore::read.
Read(t) ==
    LET a == add_file_name(store, t.file_name)
    IN  /\ s_reads < MaxReads
        /\ store' = read(a.self, t.text, a.idx)
        /\ s_reads' = s_reads + 1
        /\ s_last' = SLastRead(t, read_loop(a.self, t.text, a.idx))
        /\ UNCHANGED <<s_reached, s_expands>>

\* The entries of the walk w added to the counts in reached.
ReachedAfter(reached, w) ==
    [n \in (DOMAIN reached) \cup {w.entered[i] : i \in 1..Len(w.entered)} |->
        (IF n \in DOMAIN reached THEN reached[n] ELSE 0) + TimesEntered(w, n)]

\* The state after an expansion that returned r.
Expanded(chunk_name, indent, r) ==
    /\ store' = [store EXCEPT !.chunks = r.chunks]
    /\ s_last' = SLast("expand", chunk_name, indent, r)

\* Clip::expand / ChunkStore::expand
Expand(chunk_name, indent) ==
    /\ s_expands < MaxExpands
    /\ Expanded(chunk_name, indent, expand(store, chunk_name, indent))
    /\ s_reached' = ReachedAfter(s_reached, Walk(store.chunks, chunk_name, {}, FALSE))
    /\ s_expands' = s_expands + 1
    /\ UNCHANGED s_reads

\* Clip::reset / ChunkStore::reset
Reset ==
    /\ store' = reset(store)
    /\ s_reached' = <<>>
    /\ s_last' = SLast("reset", <<>>, <<>>, ExpandReturn(NoError, <<>>, <<>>, <<>>))
    /\ UNCHANGED <<s_reads, s_expands>>

SNext ==
    \/ \E t \in Texts : Read(t)
    \/ \E n \in ExpandNames, i \in Indents : Expand(n, i)
    \/ Reset

(***************************************************************************)
(* Claims about the chunk store.                                           *)
(***************************************************************************)
FilePrefix == <<"@", "f", "i", "l", "e", " ">>

\* C6: after any sequence of reads, every chunk of the store whose name
\* starts with "@file " has a safe relative path after that prefix: not
\* absolute, no ".." component, no ":".  An opening line with an unsafe
\* path records no chunk.
C6_FileChunkPathsSafe ==
    \A n \in DOMAIN store.chunks :
        StartsWith(n, FilePrefix) => path_is_safe(Drop(n, Len(FilePrefix))) = "Ok"

\* C7: the reference counter of every chunk of the store equals the number
\* of times expansion entered that chunk, over all top-level expand calls
\* since the last reset, whatever was read in between.
C7_CounterEqualsTimesReached ==
    \A n \in DOMAIN store.chunks :
        store.chunks[n].references =
            (IF n \in DOMAIN s_reached THEN s_reached[n] ELSE 0)

\* Every line of lines with prefix put in front of it.
Prepend(prefix, lines) == [i \in 1..Len(lines) |-> prefix \o lines[i]]

\* The last expansion against an expansion r1 at a shorter indent: both
\* succeed or both fail, and its lines are those of r1 behind prefix.
SameBehindPrefix(prefix, r1) ==
    /\ (s_last.err = "Ok") <=> (r1.err = "Ok")
    /\ s_last.err = "Ok" => s_last.lines = Prepend(prefix, r1.lines)

\* C8 as stated: for every way to write the indent of an expansion as
\* I1 + I2, the expansion succeeds exactly when expand(name, I1) does, and
\* its lines are those of expand(name, I1) with I2 put in front of each.
C8_IndentAppendedIsPrepended ==
    s_last.op = "expand" =>
        \A k \in 0..Len(s_last.indent) :
            SameBehindPrefix(Drop(s_last.indent, k),
                             expand(store, s_last.name, Take(s_last.indent, k)))

\* C8: for every way to write the indent of an expansion as I2 + I1, the
\* expansion succeeds exactly when expand(name, I1) does, and its lines are
\* those of expand(name, I1) with I2 put in front of each.
C8_IndentPrefixIsPrepended ==
    s_last.op = "expand" =>
        \A k \in 0..Len(s_last.indent) :
            SameBehindPrefix(Take(s_last.indent, k),
                             expand(store, s_last.name, Drop(s_last.indent, k)))

\* C8's case: t, with its indented and nested references, expanded at an
\* indent that splits into two different non-empty parts.
C8_Witness ==
    /\ s_last.op = "expand"
    /\ s_last.name = <<"t">>
    /\ s_last.err = "Ok"
    /\ Len(s_last.lines) > 1
    /\ Len(s_last.indent) >= 2
    /\ s_last.indent[1] # s_last.indent[2]

\* The last expansion against the walk w of the reference graph.
AgreesWithWalk(w) ==
    /\ (s_last.err = "RecursiveReference") <=> (w.kind = "cycle")
    /\ w.kind = "cycle" => s_last.chunk = w.chunk
    /\ w.kind = "ok" => s_last.err = "Ok"

\* C10: an expansion fails with RecursiveReference exactly when the walk of
\* the reference graph comes to a chunk that is in progress above it, and
\* the error names that chunk; when the walk meets no such chunk and no
\* undefined one, however often it meets the same chunk, the expansion
\* succeeds.
C10_CycleDetectedExactly ==
    s_last.op = "expand" =>
        AgreesWithWalk(Walk(store.chunks, s_last.name, {}, FALSE))

\* C10's case: p expanded with a defined, so that the walk goes through a,
\* then q, and comes back to p.
C10_Witness ==
    /\ s_last.op = "expand"
    /\ s_last.name = <<"p">>
    /\ s_last.err = "RecursiveReference"
    /\ s_last.chunk = <<"p">>
    /\ <<"a">> \in DOMAIN store.chunks
    /\ store.chunks[<<"q">>].references > 0

\* A chunk met several times by one successful expansion.
C10_SiblingsExpanded ==
    /\ s_last.op = "expand"
    /\ s_last.name = <<"t">>
    /\ s_last.err = "Ok"
    /\ store.chunks[<<"a">>].references >= 3

(***************************************************************************)
(* What was read since the store was new or reset, from the names of the   *)
(* files read: the opening lines of each chunk, in the order read.         *)
(***************************************************************************)
TextNamed(file_name) == (CHOOSE t \in Texts : t.file_name = file_name).text

\* The chunk name an opening line gives.
FullName(line, caps) ==
    IF Contains(line, <<"@", "f", "i", "l", "e">>) THEN FilePrefix \o caps.name ELSE caps.name

IsOpeningOf(line, full_name) ==
    /\ open_re(line).matched
    /\ FullName(line, open_re(line)) = full_name
    /\ validate_chunk_name(full_name, line)

Opening(lines, file_idx, k, full_name) ==
    [file_idx |-> file_idx, line |-> k - 1,
     replace |-> Contains(lines[k], <<"@", "r", "e", "p", "l", "a", "c", "e">>),
     opens |-> IsOpeningOf(lines[k], full_name)]

\* The opening lines of full_name among lines, in order.
OpeningsIn(lines, file_idx, full_name) ==
    SelectSeq([k \in 1..Len(lines) |-> Opening(lines, file_idx, k, full_name)],
              LAMBDA o : o.opens)

RECURSIVE OpeningsFrom(_, _, _)
OpeningsFrom(file_names, i, full_name) ==
    IF i > Len(file_names) THEN <<>>
    ELSE OpeningsIn(Lines(TextNamed(file_names[i])), i - 1, full_name)
         \o OpeningsFrom(file_names, i + 1, full_name)

\* The opening lines of full_name read so far: files in the order they were
\* handed to read, lines in their order in the file.
Openings(full_name) == OpeningsFrom(store.file_names, 1, full_name)

\* Where the openings, and where the definitions of a chunk, stand.
OpenedAt(ops) == [j \in DOMAIN ops |-> <<ops[j].file_idx, ops[j].line>>]
DefinedAt(defs) == [j \in DOMAIN defs |-> <<defs[j].file_idx, defs[j].line>>]

\* The last opening that carries @replace, 1 when none does.
LastReplace(ops) ==
    IF \E j \in DOMAIN ops : ops[j].replace
    THEN SetMax({j \in DOMAIN ops : ops[j].replace}) ELSE 1

\* The openings from the last one that carries @replace on.
SinceLastReplace(ops) == SubSeq(ops, LastReplace(ops), Len(ops))

\* The store with the j-th definition of chunk n as its only one.
OnlyDefinition(n, j) == [store EXCEPT !.chunks[n].definitions = <<@[j]>>]

\* The expansions of the definitions of n from the j-th on, each expanded
\* by itself, one after the other.
RECURSIVE ExpandedOneByOne(_, _, _)
ExpandedOneByOne(n, indent, j) ==
    IF j > Len(store.chunks[n].definitions) THEN <<>>
    ELSE expand(OnlyDefinition(n, j), n, indent).lines
         \o ExpandedOneByOne(n, indent, j + 1)

\* The last call expanded n with success.
ExpandedOk(n) == s_last.op = "expand" /\ s_last.name = n /\ s_last.err = "Ok"

\* The names of the chunks that are no file chunks in the texts read.
ChunkNames == {<<"t">>, <<"a">>, <<"b">>, <<"k">>, <<"r">>, <<"p">>, <<"q">>}
FileChunkNames == {<<"@", "f", "i", "l", "e", " ", "o">>}

\* The opening lines after which content lines are lost: the lines that
\* follow line k (0-based) up to the next opening or closing line.
RECURSIVE LinesBehind(_, _)
LinesBehind(lines, k) ==
    IF k + 2 > Len(lines) \/ open_re(lines[k + 2]).matched \/ close_re(lines[k + 2])
    THEN {}
    ELSE {k + 1} \cup LinesBehind(lines, k + 1)

\* C15: a read that meets a second opening line for a defined file chunk,
\* without @replace, reports FileChunkRedefinition to its caller, and the
\* content lines behind the refused opening line are recorded in no chunk.
C15_RedefinitionReported ==
    (s_last.op = "read" /\ s_last.rejected # <<>>) =>
        /\ s_last.err = "FileChunkRedefinition"
        /\ \A i \in DOMAIN s_last.rejected :
               LinesBehind(Lines(s_last.text), s_last.rejected[i])
                   \cap s_last.recorded = {}

\* What read does on such a line: nothing is reported, the chunk is gone
\* with all its definitions unless the same read defines it again.
RedefinitionDropsChunk ==
    (s_last.op = "read" /\ s_last.rejected # <<>>) =>
        /\ s_last.err = "Ok"
        /\ \A n \in FileChunkNames :
               (n \in DOMAIN store.chunks) =>
                   \A j \in DOMAIN store.chunks[n].definitions :
                       /\ store.chunks[n].definitions[j].file_idx
                              = Len(store.file_names) - 1
                       /\ store.chunks[n].definitions[j].line
                              > s_last.rejected[1]

\* The refused opening line met while another chunk is open: its content
\* lines go to that chunk.
C15_LinesGoToOpenChunk ==
    /\ s_last.op = "read" /\ s_last.name = <<"r", "e", "d", "e", "f", "i", "n", "e", ".", "n", "w">>
    /\ s_last.rejected = <<5>>
    /\ 6 \in s_last.recorded
    /\ store.chunks[<<"k">>].definitions[1].content = <<<<"k", "a", "y", "\n">>, <<"t", "w", "o", "\n">>>>
    /\ <<"@", "f", "i", "l", "e", " ", "o">> \notin DOMAIN store.chunks

C16_OtherOrder ==
    /\ store.file_names = <<<<"m", "o", "r", "e", ".", "n", "w">>, <<"t", "r", "e", "e", ".", "n", "w">>>>
    /\ ExpandedOk(<<"a">>)
    /\ s_last.indent = <<>>
    /\ s_last.lines = <<<<"u", "\n">>, <<"v", "\n">>, <<"x", "\n">>>>

\* C17: once an opening line with @replace was read for a file chunk, the
\* chunk holds no definition read before the last such line; when that
\* line is the last opening line read for the chunk, the chunk holds the
\* definition of that line and no other, and its expansion is the expansion
\* of that definition.
C17_ReplaceDiscardsEarlier ==
    \A n \in FileChunkNames :
        (\E j \in DOMAIN Openings(n) : Openings(n)[j].replace) =>
            /\ n \in DOMAIN store.chunks =>
                   \A j \in DOMAIN store.chunks[n].definitions :
                       \E k \in DOMAIN SinceLastReplace(Openings(n)) :
                           DefinedAt(store.chunks[n].definitions)[j]
                               = OpenedAt(SinceLastReplace(Openings(n)))[k]
            /\ Openings(n)[Len(Openings(n))].replace =>
                   /\ n \in DOMAIN store.chunks
                   /\ DefinedAt(store.chunks[n].definitions)
                          = OpenedAt(SinceLastReplace(Openings(n)))
            /\ ExpandedOk(n) => s_last.lines = ExpandedOneByOne(n, s_last.indent, 1)

\* C17's case: o defined in one text, defined and replaced in the next, and
\* expanded.
C17_Witness ==
    /\ store.file_names = <<<<"f", "i", "l", "e", "s", ".", "n", "w">>, <<"r", "e", "f", "i", "l", "e", ".", "n", "w">>>>
    /\ ExpandedOk(<<"@", "f", "i", "l", "e", " ", "o">>)
    /\ s_last.indent = <<>>
    /\ s_last.lines = <<<<"t", "w", "o", "\n">>>>

\* The last call was an expansion that failed at a reference line inside a
\* definition (and not at the name handed to expand).
FailedAtReference ==
    /\ s_last.op = "expand"
    /\ s_last.err \in {"UndefinedChunk", "RecursiveReference", "RecursionLimit"}
    /\ ~(s_last.err = "UndefinedChunk" /\ s_last.chunk = s_last.name)

\* Line number k (0-based) of the text is a reference to chunk.
IsReferenceTo(lines, k, chunk) ==
    /\ k + 1 \in DOMAIN lines
    /\ slot_re(lines[k + 1]).matched
    /\ Trim(slot_re(lines[k + 1]).name) = chunk

\* C21: an UndefinedChunk, RecursiveReference or RecursionLimit error raised
\* for a reference line inside a definition carries the name of the file
\* the definition was read from and the 0-based number, in that file, of
\* the reference line itself.
C21_ErrorAtReferenceLine ==
    FailedAtReference =>
        /\ \E t \in Texts : t.file_name = s_last.file_name
        /\ IsReferenceTo(Lines(TextNamed(s_last.file_name)), s_last.line, s_last.chunk)

\* What the error carries: the file of the definition, and the number of
\* the line before the reference line (new_loc.line counts the content
\* lines from the opening line, the first being the opening line itself).
ErrorAtLineBefore ==
    FailedAtReference =>
        /\ \E t \in Texts : t.file_name = s_last.file_name
        /\ IsReferenceTo(Lines(TextNamed(s_last.file_name)), s_last.line + 1,
                         s_last.chunk)

\* r of cycles.nw, opened on line 0 and referring to itself on line 1: the
\* error carries line 0.
C21_OpeningLineCarried ==
    /\ s_last.op = "expand" /\ s_last.name = <<"r">>
    /\ s_last.err = "RecursiveReference"
    /\ s_last.file_name = <<"c", "y", "c", "l", "e", "s", ".", "n", "w">>
    /\ s_last.line = 0

\* The chunk named by the i-th opening line the last read refused.
RejectedName(i) ==
    FullName(Lines(s_last.text)[s_last.rejected[i] + 1],
             open_re(Lines(s_last.text)[s_last.rejected[i] + 1]))

\* The definition was read before the line: from an earlier file, or from
\* an earlier line of the file read last.
ReadBefore(def, line) ==
    \/ def.file_idx < Len(store.file_names) - 1
    \/ def.file_idx = Len(store.file_names) - 1 /\ def.line < line

\* C27: after read met a second opening line for an existing file chunk
\* without @replace, the first definition of the chunk is still in the
\* store: has_chunk holds, get_file_chunks lists it, and the definition
\* read before the refused line is there.
C27_RejectedChangesNothing ==
    (s_last.op = "read" /\ s_last.rejected # <<>>) =>
        \A i \in DOMAIN s_last.rejected :
            /\ has_chunk(store, RejectedName(i))
            /\ RejectedName(i) \in get_file_chunks(store)
            /\ \E j \in DOMAIN store.chunks[RejectedName(i)].definitions :
                   ReadBefore(store.chunks[RejectedName(i)].definitions[j],
                              s_last.rejected[i])

\* The file chunk is gone after the refused line, and expanding it fails.
C27_FirstDefinitionGone ==
    /\ s_last.op = "expand"
    /\ s_last.name = <<"@", "f", "i", "l", "e", " ", "o">>
    /\ s_last.err = "UndefinedChunk"
    /\ ~has_chunk(store, <<"@", "f", "i", "l", "e", " ", "o">>)
    /\ <<"@", "f", "i", "l", "e", " ", "o">> \notin get_file_chunks(store)
    /\ <<"r", "e", "d", "e", "f", "i", "n", "e", ".", "n", "w">> \in {store.file_names[i] : i \in DOMAIN store.file_names}

\* The content lines of the definitions from the j-th on, each with the
\* base_indent of its definition.
RECURSIVE ContentLines(_, _)
ContentLines(defs, j) ==
    IF j > Len(defs) THEN <<>>
    ELSE [k \in 1..Len(defs[j].content) |->
             [line |-> defs[j].content[k], base_indent |-> defs[j].base_indent]]
         \o ContentLines(defs, j + 1)

IsPlainLine(c) == ~slot_re(c.line).matched

IsWhitespace(line, k) == \A i \in 1..k : line[i] \in {" ", "\t"}

\* out is the indent followed by the content line with at most base_indent
\* leading whitespace characters removed.
StrippedOf(out, indent, c) ==
    \E k \in 0..c.base_indent :
        /\ k <= Len(c.line)
        /\ IsWhitespace(c.line, k)
        /\ out = indent \o Drop(c.line, k)

\* The last call expanded a chunk whose content lines are all plain.
ExpandedPlain ==
    /\ s_last.op = "expand"
    /\ s_last.err = "Ok"
    /\ s_last.name \in DOMAIN store.chunks
    /\ \A k \in DOMAIN ContentLines(store.chunks[s_last.name].definitions, 1) :
           IsPlainLine(ContentLines(store.chunks[s_last.name].definitions, 1)[k])

\* C28: every content line that is no reference is expanded to the target
\* indent followed by the line with at most base_indent leading whitespace
\* characters removed: no other character of the line is dropped, also when
\* the line is indented less than the opening line of its chunk.
C28_IndentStrippingKeepsText ==
    ExpandedPlain =>
        /\ Len(s_last.lines)
               = Len(ContentLines(store.chunks[s_last.name].definitions, 1))
        /\ \A k \in DOMAIN s_last.lines :
               StrippedOf(s_last.lines[k], s_last.indent,
                          ContentLines(store.chunks[s_last.name].definitions, 1)[k])

\* A line indented at least as much as the opening line of its chunk loses
\* that indent and nothing else.
IndentRemoved(out, indent, c) ==
    (Len(c.line) > c.base_indent /\ IsWhitespace(c.line, c.base_indent))
        => out = indent \o Drop(c.line, c.base_indent)

IndentedLinesKeepText ==
    ExpandedPlain =>
        \A k \in DOMAIN s_last.lines :
            IndentRemoved(s_last.lines[k], s_last.indent,
                          ContentLines(store.chunks[s_last.name].definitions, 1)[k])

\* i expanded: the line `xyz` comes out as `z`, the line ` ab` as `b`.
C28_TextDropped ==
    /\ s_last.op = "expand"
    /\ s_last.name = <<"i">>
    /\ s_last.err = "Ok"
    /\ s_last.indent = <<>>
    /\ s_last.lines = <<<<"i", "n", "\n">>, <<"b", "\n">>, <<"z", "\n">>>>

(***************************************************************************)
(* Reading and expansion taken one step at a time, the calls in progress   *)
(* of expand_with_depth on an explicit stack (noweb.rs).                   *)
(***************************************************************************)
\* A chain d0 -> d1 -> ... -> dN of chunks each referring to the next, as
\* the test test_max_recursion_depth builds it: the chunks from the k-th on.
ChainName(k) == <<"d">> \o Decimal(k)

ChainLink(k) ==
    <<"<", "<">> \o ChainName(k) \o <<">", ">", "=", "\n", "<", "<">> \o ChainName(k + 1) \o <<">", ">", "\n", "@", "\n">>

ChainEnd(k) == <<"<", "<">> \o ChainName(k) \o <<">", ">", "=", "\n", "x", "\n", "@", "\n">>

RECURSIVE ChainText(_, _)
ChainText(k, n) ==
    IF k >= n THEN ChainEnd(k) ELSE ChainLink(k) \o ChainText(k + 1, n)

\* The last chunk of the chain is one reference deeper than the limit:
\* d0 reaches it at depth MAX_DEPTH + 1, d1 at depth MAX_DEPTH.
ChainLen == MAX_DEPTH + 1

Text_chain == ChainText(0, ChainLen)

VARIABLES
    x_read,        \* the read call in progress: the text left, the loop's locals
    x_expand       \* the top-level expand call in progress: its calls, seen

xvars == <<x_read, x_expand>>

NoRead ==
    [active |-> FALSE, text |-> <<>>, file_idx |-> 0, line_no |-> 0,
     current_chunk |-> NoCurrent]

NoExpand ==
    [active |-> FALSE, name |-> <<>>, indent |-> <<>>, frames |-> <<>>, seen |-> <<>>]

XIdle == x_read = NoRead /\ x_expand = NoExpand

\* The texts read one line at a time: the chain, and the tree whose chunks
\* are referred to several times but never deeply.
DepthTexts == {[file_name |-> <<"c", "h", "a", "i", "n", ".", "n", "w">>, text |-> Text_chain],
               [file_name |-> <<"t", "r", "e", "e", ".", "n", "w">>, text |-> Text_tree]}

DepthNames == {ChainName(0), ChainName(1), <<"t">>}

\* The texts and names of the expansions followed to their end: those with
\* references that lead back, and the tree that p refers into.
TermTexts == {[file_name |-> <<"t", "r", "e", "e", ".", "n", "w">>, text |-> Text_tree],
              [file_name |-> <<"c", "y", "c", "l", "e", "s", ".", "n", "w">>, text |-> Text_cycles]}

TermNames == {<<"t">>, <<"r">>, <<"p">>, <<"q">>}

\* The end of the first line of a text: its "\n", or one past the end.
first_line_end(text) ==
    IF \E k \in 1..Len(text) : text[k] = "\n"
    THEN CHOOSE k \in 1..Len(text) :
             text[k] = "\n" /\ \A j \in 1..(k - 1) : text[j] # "\n"
    ELSE Len(text) + 1

\* Clip::read and the start of ChunkStore::read: the file name recorded, the
\* loop about to take its first line.  A text is read once.
ReadBegin(t, a) ==
    /\ ~x_read.active /\ ~x_expand.active
    /\ s_reads < MaxReads
    /\ \A i \in 1..Len(store.file_names) : store.file_names[i] # t.file_name
    /\ store' = a.self
    /\ x_read' = [active |-> TRUE, text |-> t.text, file_idx |-> a.idx,
                  line_no |-> 0, current_chunk |-> NoCurrent]
    /\ s_reads' = s_reads + 1
    /\ s_last' = SLast("read", t.file_name, <<>>,
                       ExpandReturn(NoError, <<>>, <<>>, <<>>))
    /\ UNCHANGED <<s_reached, s_expands, x_expand>>

\* The state after the loop of read took the line that ends at k, st being
\* what read_line made of the chunk map and of current_chunk.
ReadLineDone(k, st) ==
    /\ store' = [store EXCEPT !.chunks = st.chunks]
    /\ x_read' = [x_read EXCEPT !.text = Drop(@, k),
                                !.line_no = @ + 1,
                                !.current_chunk = st.current_chunk]

\* One iteration of the loop of read, on the line that ends at k.
ReadLineAt(k) ==
    ReadLineDone(k,
        read_line(ReadLocals(store.chunks, x_read.current_chunk),
                  StripCr(SubSeq(x_read.text, 1, k - 1), k <= Len(x_read.text)),
                  x_read.file_idx, x_read.line_no))

ReadLine ==
    /\ x_read.active
    /\ x_read.text # <<>>
    /\ ReadLineAt(first_line_end(x_read.text))
    /\ UNCHANGED <<s_reached, s_reads, s_expands, s_last, x_expand>>

\* The end of read: file_chunks rebuilt.
ReadEnd ==
    /\ x_read.active
    /\ x_read.text = <<>>
    /\ store' = read_done(store, store.chunks)
    /\ x_read' = NoRead
    /\ UNCHANGED <<s_reached, s_reads, s_expands, s_last, x_expand>>

\* A call of expand_with_depth in progress: its arguments and the locals of
\* its two loops, j the definition and k the line it has come to.
NewFrame(chunk_name, target_indent, depth, defs) ==
    [chunk_name |-> chunk_name, target_indent |-> target_indent, depth |-> depth,
     defs |-> defs, j |-> 1, k |-> 1, def_output |-> <<>>, result |-> <<>>]

\* A top-level call that keeps its result and never returns.
FinishNever(name, indent, r) ==
    /\ s_last' = SLast("expand", name, indent, r)
    /\ x_expand' = x_expand

\* The top-level call returns: the result is kept and nothing is in progress.
Finish(name, indent, r) ==
    /\ s_last' = SLast("expand", name, indent, r)
    /\ x_expand' = NoExpand

\* The start of expand_with_depth, under the calls in frames: an error,
\* which every caller passes on with `?`, or a new call in progress with
\* the chunk's counter bumped and the chunk pushed on seen.
Enter(name, indent, frames, seen, chunk_name, target_indent, depth, reference_location, reversed_mode) ==
    IF depth_exceeded(depth)
    THEN /\ Finish(name, indent, ExpandReturn(ExpandError(store, "RecursionLimit", chunk_name,
                                            reference_location), <<>>, <<>>, <<>>))
         /\ UNCHANGED store
    ELSE IF seen_contains(seen, chunk_name)
    THEN /\ Finish(name, indent, ExpandReturn(ExpandError(store, "RecursiveReference", chunk_name,
                                            reference_location), <<>>, <<>>, <<>>))
         /\ UNCHANGED store
    ELSE IF chunk_name \notin DOMAIN store.chunks
    THEN /\ Finish(name, indent, ExpandReturn(ExpandError(store, "UndefinedChunk", chunk_name,
                                            reference_location), <<>>, <<>>, <<>>))
         /\ UNCHANGED store
    ELSE /\ store' = [store EXCEPT !.chunks[chunk_name].references = @ + 1]
         /\ x_expand' =
                [active |-> TRUE, name |-> name, indent |-> indent,
                 frames |-> Append(frames,
                     NewFrame(chunk_name, target_indent, depth,
                              definitions_iter(store.chunks[chunk_name], reversed_mode))),
                 seen |-> Append(seen, <<chunk_name, reference_location>>)]
         /\ UNCHANGED s_last

\* ChunkStore::expand: the call at depth 0.
ExpandBegin(chunk_name, indent) ==
    /\ ~x_read.active /\ ~x_expand.active
    /\ s_expands < MaxExpands
    /\ s_expands' = s_expands + 1
    /\ Enter(chunk_name, indent, <<>>, <<>>, chunk_name, indent, 0,
             [file_idx |-> 0, line |-> 0], FALSE)
    /\ UNCHANGED <<s_reached, s_reads, x_read>>

\* The innermost call in progress, and the definition and line it is at.
TopFrame == x_expand.frames[Len(x_expand.frames)]
TopDef == TopFrame.defs[TopFrame.j]
TopLine == TopDef.content[TopFrame.k]

InDefs == x_expand.active /\ TopFrame.j <= Len(TopFrame.defs)
InLines == InDefs /\ TopFrame.k <= Len(TopDef.content)

\* The innermost call with its frame changed to f.
WithTop(f) == [x_expand EXCEPT !.frames[Len(x_expand.frames)] = f]

\* A line that refers to a chunk: the call one level deeper.
ExpandReferenceTo(caps) ==
    Enter(x_expand.name, x_expand.indent, x_expand.frames, x_expand.seen,
          Trim(caps.name),
          new_indent(TopFrame.target_indent,
                     relative_indent(caps.indent, TopDef.base_indent)),
          TopFrame.depth + 1,
          [file_idx |-> TopDef.file_idx, line |-> TopDef.line + TopFrame.k - 1],
          Contains(TopLine, <<"@", "r", "e", "v", "e", "r", "s", "e", "d">>))

ExpandReference ==
    /\ InLines
    /\ \E caps \in {slot_re(TopLine)} : caps.matched /\ ExpandReferenceTo(caps)
    /\ UNCHANGED <<s_reached, s_reads, s_expands, x_read>>

\* A plain line: pushed on def_output behind the target indent.
ExpandPlainLine ==
    /\ InLines
    /\ ~slot_re(TopLine).matched
    /\ x_expand' = WithTop([TopFrame EXCEPT
           !.def_output = Append(@, TopFrame.target_indent
                                    \o line_indent(TopLine, TopDef.base_indent)),
           !.k = @ + 1])
    /\ UNCHANGED <<store, s_reached, s_reads, s_expands, s_last, x_read>>

\* The end of a definition: result.extend(def_output), and the next one.
ExpandEndDef ==
    /\ InDefs
    /\ TopFrame.k > Len(TopDef.content)
    /\ x_expand' = WithTop([TopFrame EXCEPT
           !.result = @ \o TopFrame.def_output,
           !.def_output = <<>>, !.j = @ + 1, !.k = 1])
    /\ UNCHANGED <<store, s_reached, s_reads, s_expands, s_last, x_read>>

\* The frames after the innermost call returned lines to its caller:
\* def_output.extend(expanded), and the caller's next line.
Returned(frames, lines) ==
    [SubSeq(frames, 1, Len(frames) - 1) EXCEPT
        ![Len(frames) - 1].def_output = @ \o lines,
        ![Len(frames) - 1].k = @ + 1]

\* The end of expand_with_depth: seen.pop() and Ok(result), to the caller
\* or, from the call at depth 0, to whoever called expand.
ExpandReturns ==
    /\ x_expand.active
    /\ TopFrame.j > Len(TopFrame.defs)
    /\ IF Len(x_expand.frames) = 1
       THEN Finish(x_expand.name, x_expand.indent, ExpandReturn(NoError, TopFrame.result, <<>>, <<>>))
       ELSE /\ x_expand' = [x_expand EXCEPT
                   !.frames = Returned(@, TopFrame.result),
                   !.seen = pop_seen(@)]
            /\ UNCHANGED s_last
    /\ UNCHANGED <<store, s_reached, s_reads, s_expands, x_read>>

(***************************************************************************)
(* Claims about the depth of expansion.                                    *)
(***************************************************************************)
\* The references of a store: the pairs of a chunk and a name it refers to.
ReferencesFrom(n, refs) == {<<n, refs[i].name>> : i \in 1..Len(refs)}

ReferenceEdges(chunks) ==
    UNION {ReferencesFrom(n, RefsOf(chunks[n], FALSE)) : n \in DOMAIN chunks}

Referred(edges) == {e[2] : e \in edges}

\* The chains made of a chain of P followed by a chain of Q, each chain
\* given as the pair of the names it leads from and to.
Compose(P, Q) ==
    {<<pq[1][1], pq[2][2]>> : pq \in {x \in P \X Q : x[1][2] = x[2][1]}}

Square(P) == Compose(P, P)

\* The chains of n nested references, n >= 1, by repeated squaring.
RECURSIVE Chains(_, _)
Chains(edges, n) ==
    IF n = 1 THEN edges
    ELSE IF n % 2 = 0 THEN Square(Chains(edges, n \div 2))
    ELSE Compose(edges, Square(Chains(edges, n \div 2)))

\* The names from which some chain of n nested references starts.
HasChain(edges, n) == {c[1] : c \in Chains(edges, n)}

\* No chain of references comes back to where it started: none is as long
\* as there are names.
Acyclic(chunks, edges) ==
    Chains(edges, Cardinality((DOMAIN chunks) \cup Referred(edges))) = {}

\* The last expansion in a store with the references edges.
LimitedByDepth(chunks, edges, deep) ==
    (Acyclic(chunks, edges) /\ Referred(edges) \subseteq DOMAIN chunks) =>
        /\ (s_last.err = "RecursionLimit") <=> (s_last.name \in deep)
        /\ s_last.name \notin deep => s_last.err = "Ok"

\* C11: in a store whose references lead back to no chunk above them (and
\* all name chunks that are defined), expanding a defined chunk fails with
\* RecursionLimit exactly when some chain of nested references starting at
\* it is more than 100 references long, the chunk itself being at depth 0;
\* with every chain at most 100 references long the expansion succeeds.
C11_RecursionLimitExactly ==
    (s_last.op = "expand" /\ ~x_expand.active /\ s_last.name \in DOMAIN store.chunks) =>
        LimitedByDepth(store.chunks, ReferenceEdges(store.chunks),
            HasChain(ReferenceEdges(store.chunks), MAX_DEPTH + 1))

\* C11's case: d0 expanded with the chain read; the reference at depth 101,
\* to the last chunk of the chain, is the one refused.
C11_Witness ==
    /\ s_last.op = "expand" /\ ~x_expand.active
    /\ s_last.name = ChainName(0)
    /\ s_last.err = "RecursionLimit"
    /\ s_last.chunk = ChainName(MAX_DEPTH + 1)
    /\ store.chunks[ChainName(MAX_DEPTH)].references > 0

\* The chain expanded from one chunk further down: 100 nested references,
\* and the line of the last chunk comes out.
C11_AtLimit ==
    /\ s_last.op = "expand" /\ ~x_expand.active
    /\ s_last.name = ChainName(1)
    /\ s_last.err = "Ok"
    /\ s_last.lines = <<<<"x", "\n">>>>

\* Taken step by step or as one call, an expansion comes to the same result
\* (compared where the chains are short).
StepwiseAgreesWithExpand ==
    (/\ s_last.op = "expand" /\ ~x_expand.active
     /\ s_last.name \notin HasChain(ReferenceEdges(store.chunks), 10)) =>
        /\ s_last.err = expand(store, s_last.name, s_last.indent).err
        /\ s_last.lines = expand(store, s_last.name, s_last.indent).lines

(***************************************************************************)
(* Claims about the termination of expansion.                              *)
(***************************************************************************)
\* C30: every call of expand returns, a result or an error, after finitely
\* many steps, whatever the store holds: also when chunks refer to
\* themselves, directly or through longer cycles.
C30_ExpandTerminates == x_expand.active ~> ~x_expand.active

\* C30's case: p, which refers to q, which refers back to p, was expanded
\* step by step down to q and the call returned with the cycle reported.
C30_Witness ==
    /\ s_last.op = "expand" /\ ~x_expand.active
    /\ s_last.name = <<"p">>
    /\ s_last.err = "RecursiveReference"
    /\ s_last.chunk = <<"p">>
    /\ store.chunks[<<"q">>].references > 0

\* The chunk that refers to itself: its expansion returned as well.
C30_SelfReference ==
    /\ s_last.op = "expand" /\ ~x_expand.active
    /\ s_last.name = <<"r">>
    /\ s_last.err = "RecursiveReference"
    /\ store.chunks[<<"r">>].references = 1

(***************************************************************************)
(* Lexer (crates/azadi-macros/src/lexer/mod.rs)                            *)
(*                                                                         *)
(* Positions are byte offsets from 0, as in the code; the inputs are       *)
(* ASCII, so every character is one byte long.  The fields last_line and   *)
(* last_col, which record_position writes and nothing reads, are left out. *)
(***************************************************************************)
VARIABLES
    lexer          \* Lexer: input, pos, line, column, tokens sent, state_stack, errors

lvars == <<lexer>>

special_char == "%"

\* The result of peek_char_and_pos at the end of the input.
NoChar == ""

AsciiLower == {"a", "b", "c", "d", "e", "f", "g", "h", "i", "j", "k", "l", "m",
               "n", "o", "p", "q", "r", "s", "t", "u", "v", "w", "x", "y", "z"}
AsciiUpper == {"A", "B", "C", "D", "E", "F", "G", "H", "I", "J", "K", "L", "M",
               "N", "O", "P", "Q", "R", "S", "T", "U", "V", "W", "X", "Y", "Z"}
AsciiDigit == {"0", "1", "2", "3", "4", "5", "6", "7", "8", "9"}

is_identifier_start(c) == c \in AsciiLower \cup AsciiUpper \cup {"_"}

is_identifier_continue(c) == c \in AsciiLower \cup AsciiUpper \cup AsciiDigit \cup {"_"}

is_whitespace(c) == c \in {" ", "\t", "\r", "\n"}

\* Lexer::new
NewLexer(input, src) ==
    [input |-> input, pos |-> 0, line |-> 1, column |-> 1, src |-> src,
     tokens |-> <<>>, state_stack |-> <<"Block">>, errors |-> <<>>,
     returned |-> FALSE]

\* peek_char_and_pos: the character (line and column are fields of lx)
peek_char(lx) == IF lx.pos >= Len(lx.input) THEN NoChar ELSE lx.input[lx.pos + 1]

advance(lx) ==
    IF peek_char(lx) = NoChar THEN lx
    ELSE [lx EXCEPT !.pos = @ + 1,
                    !.line = IF peek_char(lx) = "\n" THEN @ + 1 ELSE @,
                    !.column = IF peek_char(lx) = "\n" THEN 1 ELSE @ + 1]

\* read_until stopping before end_char.
RECURSIVE read_until_before(_, _)
read_until_before(lx, end_char) ==
    IF peek_char(lx) = NoChar THEN lx
    ELSE IF peek_char(lx) = end_char THEN lx
    ELSE read_until_before(advance(lx), end_char)

RECURSIVE read_until(_, _)
read_until(lx, end_char) ==
    IF peek_char(lx) = NoChar THEN lx
    ELSE IF peek_char(lx) = end_char THEN advance(lx)
    ELSE read_until(advance(lx), end_char)

\* The end of the run of identifier characters from position end on.
RECURSIVE identifier_continue_end(_, _)
identifier_continue_end(input, end) ==
    IF end < Len(input) /\ is_identifier_continue(input[end + 1])
    THEN identifier_continue_end(input, end + 1)
    ELSE end

get_identifier_end(input, start) ==
    IF start < Len(input) /\ is_identifier_start(input[start + 1])
    THEN identifier_continue_end(input, start + 1)
    ELSE start

\* starts_with, on the input from self.pos
starts_with(lx, s) == StartsWithAt(lx.input, lx.pos + 1, s)

\* How consume_str moves line and column over the characters of s.
RECURSIVE consume_chars(_, _, _)
consume_chars(lx, s, k) ==
    IF k > Len(s) THEN lx
    ELSE consume_chars([lx EXCEPT !.line = IF s[k] = "\n" THEN @ + 1 ELSE @,
                                  !.column = IF s[k] = "\n" THEN 1 ELSE @ + 1],
                       s, k + 1)

consume_str(lx, s) ==
    IF starts_with(lx, s)
    THEN [consume_chars(lx, s, 1) EXCEPT !.pos = @ + Len(s)]
    ELSE lx

emit_token(lx, pos, length, kind) ==
    IF length = 0 /\ kind # "EOF" THEN lx
    ELSE [lx EXCEPT !.tokens = Append(@, [kind |-> kind, src |-> lx.src,
                                          pos |-> pos, length |-> length])]

\* emit_token(start, self.pos - start, kind)
emit_from(lx, start, kind) == emit_token(lx, start, lx.pos - start, kind)

error_here(lx, row, col, message) ==
    [lx EXCEPT !.errors = Append(@, [row |-> row, col |-> col, message |-> message])]

unrecognized_after_pct(lx, token_start, error_line, error_col, context) ==
    emit_from(error_here(lx, error_line, error_col,
                         "Unrecognized char after '%' in " \o context),
              token_start, "Text")

push_state(lx, state) == [lx EXCEPT !.state_stack = Append(@, state)]

\* What a state function hands to run: the lexer, and "keep" (true) or "pop"
\* (false); inside a state function, "continue" goes on with its loop.
Ret(lx, ret) == [lx |-> lx, ret |-> ret]

\* The error of a block close with no block open.
unmatched_block_close(lx, line, col) ==
    IF Len(lx.state_stack) <= 1
    THEN error_here(lx, line, Max(col - 1, 0), "Unmatched block close: no open block")
    ELSE lx

\* handle_var after the "(" was consumed and self.pos set past the identifier.
handle_var_close(lx, start, ident_start, line, col) ==
    IF lx.pos > ident_start
    THEN IF peek_char(lx) = ")"
         THEN emit_from(advance(lx), start, "Var")
         ELSE emit_from(error_here(lx, line, col, "Var missing closing ')'"),
                        start, "Text")
    ELSE emit_from(error_here(lx, line, col, "Var missing identifier after '%('"),
                   start, "Text")

\* handle_var after the "(" was consumed: self.pos moves past the identifier,
\* line and column stay.
handle_var_ident(lx, start, line, col) ==
    handle_var_close([lx EXCEPT !.pos = get_identifier_end(lx.input, lx.pos)],
                     start, lx.pos, line, col)

handle_var(lx, start, line, col) == handle_var_ident(advance(lx), start, line, col)

\* After the special char and "/", the "/" consumed.
special_slash(lx, pct_start, context) ==
    IF peek_char(lx) = NoChar THEN Ret(lx, "continue")
    ELSE IF peek_char(lx) = "/"
    THEN Ret(emit_from(read_until(advance(lx), "\n"), pct_start, "LineComment"),
             "continue")
    ELSE IF peek_char(lx) = "*"
    THEN Ret(push_state(emit_from(advance(lx), pct_start, "CommentOpen"), "Comment"),
             "keep")
    ELSE Ret(emit_from(error_here(lx, lx.line, lx.column,
                                  "Unexpected char after '%/' in " \o context),
                       pct_start, "Text"),
             "continue")

\* After the special char and "-", the "-" consumed.
special_dash(lx, pct_start, context) ==
    IF peek_char(lx) = NoChar THEN Ret(lx, "continue")
    ELSE IF peek_char(lx) = "-"
    THEN Ret(emit_from(read_until(advance(lx), "\n"), pct_start, "LineComment"),
             "continue")
    ELSE Ret(emit_from(error_here(lx, lx.line, lx.column,
                                  "Unexpected char after '%-' in " \o context),
                       pct_start, "Text"),
             "continue")

\* After the special char and an identifier, self.pos set past the identifier.
special_ident_end(lx, after_pct, context) ==
    IF peek_char(lx) = "{"
    THEN Ret(push_state(emit_from(advance(lx), after_pct, "BlockOpen"), "Block"), "keep")
    ELSE IF peek_char(lx) = "}"
    THEN Ret(emit_from(advance(unmatched_block_close(lx, lx.line, lx.column)),
                       after_pct, "BlockClose"),
             "pop")
    ELSE IF peek_char(lx) = "("
    THEN Ret(push_state(emit_from(advance(lx), after_pct, "Macro"), "Macro"), "keep")
    ELSE Ret(unrecognized_after_pct(lx, after_pct, lx.line, lx.column, context), "pop")

\* What both run_block_state and run_macro_state do after a special char
\* that is not the last character: lx stands after the special char, which
\* began at pct_start, line pct_line, column pct_col.
after_special(lx, pct_start, pct_line, pct_col, context) ==
    IF peek_char(lx) = "("
    THEN Ret(handle_var(lx, pct_start, pct_line, pct_col), "continue")
    ELSE IF peek_char(lx) = "{"
    THEN Ret(push_state(emit_from(advance(lx), pct_start, "BlockOpen"), "Block"), "keep")
    ELSE IF peek_char(lx) = "}"
    THEN Ret(emit_from(advance(unmatched_block_close(lx, lx.line, lx.column)),
                       pct_start, "BlockClose"),
             "pop")
    ELSE IF peek_char(lx) = "/" THEN special_slash(advance(lx), pct_start, context)
    ELSE IF peek_char(lx) = "-" THEN special_dash(advance(lx), pct_start, context)
    ELSE IF peek_char(lx) = "#"
    THEN Ret(emit_from(read_until(advance(lx), "\n"), pct_start, "LineComment"),
             "continue")
    ELSE IF peek_char(lx) = special_char
    THEN Ret(emit_from(advance(lx), pct_start, "Special"), "continue")
    ELSE IF is_identifier_start(peek_char(lx))
    THEN special_ident_end([lx EXCEPT !.pos = get_identifier_end(lx.input, lx.pos)],
                           pct_start, context)
    ELSE Ret(emit_token(error_here(lx, lx.line, lx.column,
                                   "Unrecognized char after '%' in " \o context),
                        pct_start, 1, "Text"),
             "continue")

\* Text accumulated since text_start, flushed as a Text token.
flush_text(lx, text_start) ==
    IF lx.pos > text_start THEN emit_from(lx, text_start, "Text") ELSE lx

RECURSIVE block_loop(_, _)

\* run_block_state after the handling of a special char: the loop goes on
\* with text_start = self.pos, or the function returns.
block_resume(r) == IF r.ret = "continue" THEN block_loop(r.lx, r.lx.pos) ELSE r

\* run_block_state at a special char, the text before it flushed and the
\* special char, which stood at pct_line and pct_col, consumed.
block_special(lx, pct_line, pct_col) ==
    IF peek_char(lx) = NoChar
    THEN Ret(emit_token(lx, lx.pos - 1, 1, "Text"), "pop")
    ELSE block_resume(after_special(lx, lx.pos - 1, pct_line, pct_col, "block"))

\* The loop of run_block_state.
block_loop(lx, text_start) ==
    IF peek_char(lx) = NoChar THEN Ret(flush_text(lx, text_start), "pop")
    ELSE IF peek_char(lx) = special_char
    THEN block_special(advance(flush_text(lx, text_start)), lx.line, lx.column)
    ELSE block_loop(advance(lx), text_start)

run_block_state(lx) == block_loop(lx, lx.pos)

\* The end of the run of whitespace from self.pos on.
RECURSIVE skip_whitespace(_)
skip_whitespace(lx) ==
    IF peek_char(lx) # NoChar /\ is_whitespace(peek_char(lx))
    THEN skip_whitespace(advance(lx)) ELSE lx

\* The end of the run of text in a macro call's arguments from self.pos on.
RECURSIVE skip_macro_text(_)
skip_macro_text(lx) ==
    IF \/ peek_char(lx) = NoChar
       \/ is_whitespace(peek_char(lx))
       \/ peek_char(lx) \in {")", ",", "="}
       \/ peek_char(lx) = special_char
    THEN lx ELSE skip_macro_text(advance(lx))

RECURSIVE macro_loop(_)

\* The end of an iteration of the loop of run_macro_state.
macro_resume(r) ==
    IF r.ret # "continue" THEN r
    ELSE IF r.lx.state_stack[Len(r.lx.state_stack)] # "Macro" THEN Ret(r.lx, "pop")
    ELSE macro_loop(r.lx)

\* run_macro_state at a special char, the special char, which stood at
\* pct_line and pct_col, consumed.
macro_special(lx, pct_line, pct_col) ==
    IF peek_char(lx) = NoChar
    THEN Ret(emit_token(error_here(lx, pct_line, pct_col,
                                   "EOF after '%' in macro, incomplete token"),
                        lx.pos - 1, 1, "Text"),
             "pop")
    ELSE after_special(lx, lx.pos - 1, pct_line, pct_col, "macro")

\* The loop of run_macro_state.
macro_loop(lx) ==
    IF peek_char(lx) = NoChar THEN Ret(lx, "pop")
    ELSE IF peek_char(lx) = ")"
    THEN Ret(emit_token(advance(lx), lx.pos, 1, "CloseParen"), "pop")
    ELSE IF peek_char(lx) = ","
    THEN macro_resume(Ret(emit_token(advance(lx), lx.pos, 1, "Comma"), "continue"))
    ELSE IF peek_char(lx) = "="
    THEN macro_resume(Ret(emit_token(advance(lx), lx.pos, 1, "Equal"), "continue"))
    ELSE IF is_whitespace(peek_char(lx))
    THEN macro_resume(Ret(emit_from(skip_whitespace(lx), lx.pos, "Space"), "continue"))
    ELSE IF peek_char(lx) = special_char
    THEN macro_resume(macro_special(advance(lx), lx.line, lx.column))
    ELSE IF is_identifier_start(peek_char(lx))
    THEN macro_resume(Ret(emit_from([lx EXCEPT !.pos = get_identifier_end(lx.input, lx.pos)],
                                    lx.pos, "Ident"),
                          "continue"))
    ELSE macro_resume(Ret(emit_from(skip_macro_text(lx), lx.pos, "Text"), "continue"))

run_macro_state(lx) == macro_loop(lx)

\* The loop of run_comment_state.
RECURSIVE comment_loop(_, _)
comment_loop(lx, comment_text_start) ==
    IF lx.pos >= Len(lx.input)
    THEN Ret(error_here(flush_text(lx, comment_text_start), lx.line, lx.column,
                        "Unclosed comment"),
             "pop")
    ELSE IF starts_with(lx, <<"%", "/", "*">>)
    THEN Ret(push_state(emit_from(consume_str(flush_text(lx, comment_text_start), <<"%", "/", "*">>),
                                  lx.pos, "CommentOpen"),
                        "Comment"),
             "keep")
    ELSE IF starts_with(lx, <<"%", "*", "/">>)
    THEN Ret(emit_from(consume_str(flush_text(lx, comment_text_start), <<"%", "*", "/">>),
                       lx.pos, "CommentClose"),
             "pop")
    ELSE comment_loop(advance(lx), comment_text_start)

run_comment_state(lx) == comment_loop(lx, lx.pos)

\* The state on top of the stack.
current_state(lx) == lx.state_stack[Len(lx.state_stack)]

\* The end of an iteration of the loop of run: the state is popped when the
\* state function returned false.
run_keep_state(r) ==
    IF r.ret = "pop"
    THEN [r.lx EXCEPT !.state_stack = SubSeq(@, 1, Len(@) - 1)]
    ELSE r.lx

\* One iteration of the loop of run.
run_iteration(lx) ==
    IF lx.state_stack = <<>>
    THEN [emit_token(lx, lx.pos, 0, "EOF") EXCEPT !.returned = TRUE]
    ELSE IF current_state(lx) = "Block" THEN run_keep_state(run_block_state(lx))
    ELSE IF current_state(lx) = "Macro" THEN run_keep_state(run_macro_state(lx))
    ELSE run_keep_state(run_comment_state(lx))

\* Lexer::run
RECURSIVE run(_)
run(lx) == IF lx.returned THEN lx ELSE run(run_iteration(lx))

(***************************************************************************)
(* The lexer run on every short input, one iteration of run at a time.     *)
(***************************************************************************)
\* Longest input handed to the lexer, in characters.
MaxLexLen == 3

LexChars == {"%", "(", ")", "{", "}", "/", "*", "-", "a", ",", " ", "\n"}

LexInputs == UNION {[1..n -> LexChars] : n \in 0..MaxLexLen}

LInit == \E input \in LexInputs : lexer = NewLexer(input, 0)

\* No lexer at work: one made for the empty input.
LIdle == lexer = NewLexer(<<>>, 0)

RunEof ==
    /\ ~lexer.returned
    /\ lexer.state_stack = <<>>
    /\ lexer' = run_iteration(lexer)

RunBlockState ==
    /\ ~lexer.returned
    /\ lexer.state_stack # <<>> /\ current_state(lexer) = "Block"
    /\ lexer' = run_iteration(lexer)

RunMacroState ==
    /\ ~lexer.returned
    /\ lexer.state_stack # <<>> /\ current_state(lexer) = "Macro"
    /\ lexer' = run_iteration(lexer)

RunCommentState ==
    /\ ~lexer.returned
    /\ lexer.state_stack # <<>> /\ current_state(lexer) = "Comment"
    /\ lexer' = run_iteration(lexer)

LNext == RunEof \/ RunBlockState \/ RunMacroState \/ RunCommentState

(***************************************************************************)
(* Claims about the lexer.                                                 *)
(***************************************************************************)
\* The bytes of the input that the tokens from the k-th on span, in order.
RECURSIVE TokenBytes(_, _, _)
TokenBytes(input, tokens, k) ==
    IF k > Len(tokens) THEN <<>>
    ELSE SubSeq(input, tokens[k].pos + 1, tokens[k].pos + tokens[k].length)
         \o TokenBytes(input, tokens, k + 1)

\* The tokens lie end to end from offset 0 and the last is the empty EOF at
\* the end of the input.
Contiguous(input, tokens) ==
    /\ tokens # <<>>
    /\ tokens[1].pos = 0
    /\ \A k \in 1..(Len(tokens) - 1) :
           tokens[k + 1].pos = tokens[k].pos + tokens[k].length
    /\ tokens[Len(tokens)].kind = "EOF"
    /\ tokens[Len(tokens)].pos = Len(input)

\* C9: for every input, with or without lexical errors, the tokens Lexer::run
\* emitted, up to and including the empty EOF token, cover the input without
\* gaps or overlaps: their byte ranges concatenated give back the input.
C9_TokensCoverInput ==
    lexer.returned =>
        /\ Contiguous(lexer.input, lexer.tokens)
        /\ TokenBytes(lexer.input, lexer.tokens, 1) = lexer.input

(***************************************************************************)
(* Parser (crates/azadi-macros/src/parser/mod.rs)                          *)
(***************************************************************************)
\* Parser::new: no nodes, an empty stack of (state, node index) pairs.
\* Node indices count from 0, as in the code.
NewParser == [nodes |-> <<>>, stack |-> <<>>]

NewToken(kind, src, pos, length) ==
    [kind |-> kind, src |-> src, pos |-> pos, length |-> length]

\* create_node: the new node's index is the number of nodes before the call.
create_node(self, kind, src, token) ==
    [self EXCEPT !.nodes = Append(@, [kind |-> kind, src |-> src, token |-> token,
                                      end_pos |-> 0, parts |-> <<>>])]

add_child(self, parent_idx, child_idx) ==
    IF parent_idx < Len(self.nodes)
    THEN [self EXCEPT !.nodes[parent_idx + 1].parts = Append(@, child_idx)]
    ELSE self

\* create_add_node: the node is attached to the node on top of the stack.
create_add_node(self, kind, src, token) ==
    IF self.stack # <<>>
    THEN add_child(create_node(self, kind, src, token),
                   self.stack[Len(self.stack)][2], Len(self.nodes))
    ELSE create_node(self, kind, src, token)

close_node(self, token) ==
    IF self.stack # <<>> /\ self.stack[Len(self.stack)][2] < Len(self.nodes)
    THEN [self EXCEPT !.nodes[self.stack[Len(self.stack)][2] + 1].end_pos =
                          token.pos + token.length]
    ELSE self

\* self.stack.pop() and self.stack.push((state, idx))
stack_pop(self) ==
    IF self.stack = <<>> THEN self
    ELSE [self EXCEPT !.stack = SubSeq(@, 1, Len(@) - 1)]

stack_push(self, state, idx) == [self EXCEPT !.stack = Append(@, <<state, idx>>)]

\* create_add_node followed by a push of the new node in the given state.
open_node(self, state, kind, src, token) ==
    stack_push(create_add_node(self, kind, src, token), state, Len(self.nodes))

\* parse, the match on the kind of a token that opens or is a new node.
parse_new_token(self, token) ==
    IF token.kind = "BlockOpen" THEN open_node(self, "Block", "Block", token.src, token)
    ELSE IF token.kind = "Macro"
    THEN open_node(open_node(self, "Macro", "Macro", token.src, token),
                   "Macro", "Param", token.src,
                   NewToken("Text", token.src, token.pos, 0))
    ELSE IF token.kind = "CommentOpen"
    THEN open_node(self, "Comment", "BlockComment", token.src, token)
    ELSE IF token.kind = "Var" THEN create_add_node(self, "Var", token.src, token)
    ELSE IF token.kind = "LineComment"
    THEN create_add_node(self, "LineComment", token.src, token)
    ELSE create_add_node(self, "Text", token.src, token)

\* parse, a token met in state Block.
parse_block_token(self, token) ==
    IF token.kind = "BlockClose" THEN stack_pop(close_node(self, token))
    ELSE parse_new_token(self, token)

\* parse, a token met in state Macro.
parse_macro_token(self, token) ==
    IF token.kind = "Comma"
    THEN open_node(stack_pop(close_node(self, token)),
                   "Macro", "Param", token.src, token)
    ELSE IF token.kind = "CloseParen"
    THEN stack_pop(close_node(stack_pop(close_node(self, token)), token))
    ELSE IF token.kind = "Ident" THEN create_add_node(self, "Ident", token.src, token)
    ELSE IF token.kind = "Space" THEN create_add_node(self, "Space", token.src, token)
    ELSE IF token.kind = "Equal" THEN create_add_node(self, "Equal", token.src, token)
    ELSE parse_new_token(self, token)

\* parse, a token met in state Comment.
parse_comment_token(self, token) ==
    IF token.kind = "CommentClose" THEN stack_pop(close_node(self, token))
    ELSE IF token.kind = "CommentOpen"
    THEN open_node(self, "Comment", "BlockComment", token.src, token)
    ELSE self

parse_token(self, token) ==
    IF self.stack[Len(self.stack)][1] = "Block" THEN parse_block_token(self, token)
    ELSE IF self.stack[Len(self.stack)][1] = "Macro" THEN parse_macro_token(self, token)
    ELSE parse_comment_token(self, token)

\* The loop of parse: it ends with the tokens or when the stack is empty.
RECURSIVE parse_loop(_, _, _)
parse_loop(self, tokens, k) ==
    IF k > Len(tokens) \/ self.stack = <<>> THEN self
    ELSE parse_loop(parse_token(self, tokens[k]), tokens, k + 1)

\* The end of parse: the top of the stack is popped, then the node under it
\* is closed at the last token.
parse_end(self, tokens) ==
    IF self.stack # <<>> THEN close_node(stack_pop(self), tokens[Len(tokens)])
    ELSE self

\* Parser::parse
parse(self, tokens) ==
    IF tokens = <<>> THEN self
    ELSE parse_end(
             parse_loop(
                 stack_push(create_node(self, "Block", tokens[1].src,
                                        NewToken("Text", tokens[1].src, 0, 0)),
                            "Block", Len(self.nodes)),
                 tokens, 1),
             tokens)

(***************************************************************************)
(* AST builder (crates/azadi-macros/src/ast/mod.rs)                        *)
(***************************************************************************)
NOT_FOUND == -1

\* An ASTNode; name is <<>> for None and <<token>> for Some(token).
NewASTNode(kind, src, token, end_pos, parts, name) ==
    [kind |-> kind, src |-> src, token |-> token, end_pos |-> end_pos,
     parts |-> parts, name |-> name]

\* Nodes the first pass of analyze_param steps over.
is_skippable(kind) == kind \in {"Space", "LineComment", "BlockComment"}

\* analyze_param, the variables of the first pass before the loop.
NewParamScan ==
    [param_name |-> <<>>, first_not_skippable |-> NOT_FOUND, name_index |-> NOT_FOUND,
     first_good_after_equal |-> NOT_FOUND, seen_equal |-> FALSE, done |-> FALSE]

\* analyze_param, the body of the first pass for part i (counted from 0) once
\* first_not_skippable is set.
param_scan_part(scan, part, i) ==
    IF scan.param_name = <<>> /\ ~scan.seen_equal /\ part.kind = "Ident"
    THEN [scan EXCEPT !.param_name = <<part.token>>, !.name_index = i]
    ELSE IF scan.param_name # <<>> /\ ~scan.seen_equal /\ part.kind = "Equal"
    THEN [scan EXCEPT !.seen_equal = TRUE]
    ELSE IF scan.seen_equal
    THEN [scan EXCEPT !.first_good_after_equal = i, !.done = TRUE]
    ELSE [scan EXCEPT !.done = TRUE]

\* analyze_param, the first pass.
RECURSIVE param_scan(_, _, _, _)
param_scan(parser, parts, i, scan) ==
    IF i >= Len(parts) \/ scan.done THEN scan
    ELSE IF is_skippable(parser.nodes[parts[i + 1] + 1].kind)
    THEN param_scan(parser, parts, i + 1, scan)
    ELSE param_scan(parser, parts, i + 1,
             param_scan_part(
                 IF scan.first_not_skippable = NOT_FOUND
                 THEN [scan EXCEPT !.first_not_skippable = i] ELSE scan,
                 parser.nodes[parts[i + 1] + 1], i))

RECURSIVE clean_node(_, _)
RECURSIVE clean_parts(_, _, _)

\* The cleaned nodes of the parts from the k-th (counted from 1) on.
clean_parts(parser, parts, k) ==
    IF k > Len(parts) THEN <<>>
    ELSE clean_node(parser, parts[k]) \o clean_parts(parser, parts, k + 1)

\* analyze_param, after the first pass.
analyze_param_scanned(parser, node, scan) ==
    IF scan.seen_equal /\ scan.first_good_after_equal = NOT_FOUND
    THEN <<NewASTNode("Param", node.src, node.token, node.end_pos, <<>>,
                      scan.param_name)>>
    ELSE IF ~scan.seen_equal /\ scan.first_not_skippable = NOT_FOUND
    THEN <<NewASTNode("Param", node.src, node.token, node.end_pos, <<>>, <<>>)>>
    ELSE <<NewASTNode("Param", node.src, node.token, node.end_pos,
               clean_parts(parser, node.parts,
                   1 + (IF scan.seen_equal THEN scan.first_good_after_equal
                        ELSE IF scan.param_name # <<>> THEN scan.name_index
                        ELSE scan.first_not_skippable)),
               IF scan.seen_equal THEN scan.param_name ELSE <<>>)>>

analyze_param(parser, node_idx) ==
    analyze_param_scanned(parser, parser.nodes[node_idx + 1],
        param_scan(parser, parser.nodes[node_idx + 1].parts, 0, NewParamScan))

\* clean_node: <<>> for None (a comment), else the one cleaned node.
clean_node(parser, node_idx) ==
    IF parser.nodes[node_idx + 1].kind \in {"LineComment", "BlockComment"} THEN <<>>
    ELSE IF parser.nodes[node_idx + 1].kind = "Param"
    THEN analyze_param(parser, node_idx)
    ELSE <<NewASTNode(parser.nodes[node_idx + 1].kind, parser.nodes[node_idx + 1].src,
                      parser.nodes[node_idx + 1].token,
                      parser.nodes[node_idx + 1].end_pos,
                      clean_parts(parser, parser.nodes[node_idx + 1].parts, 1),
                      <<>>)>>

\* build_ast: ast is <<root>> when ok, and err the message when not.
build_ast_cleaned(cleaned) ==
    IF cleaned = <<>>
    THEN [ok |-> FALSE, err |-> "Root node was skipped", ast |-> <<>>]
    ELSE [ok |-> TRUE, err |-> "", ast |-> cleaned]

build_ast(parser) ==
    IF parser.nodes = <<>>
    THEN [ok |-> FALSE, err |-> "Empty parse tree", ast |-> <<>>]
    ELSE build_ast_cleaned(clean_node(parser, 0))

\* lex_parse_content (evaluator/lexer_parser.rs), from the lexer run to its end.
lex_parse_lexed(lx) ==
    IF lx.errors # <<>>
    THEN [ok |-> FALSE, err |-> "Lexer errors", ast |-> <<>>]
    ELSE build_ast(parse(NewParser, lx.tokens))

lex_parse_content(source, src) == lex_parse_lexed(run(NewLexer(source, src)))

(***************************************************************************)
(* Evaluator state (crates/azadi-macros/src/evaluator/state.rs)            *)
(***************************************************************************)
VARIABLES
    evaluator,     \* the Evaluator, the files on disk and the history of its calls
    e_evals,       \* history: number of eval_string calls made
    e_last         \* history: the last call, its source and result

evars == <<evaluator, e_evals, e_last>>

\* HashMap::new and HashMap::insert
EmptyMap == <<>>
Insert(map, key, value) ==
    [k \in (DOMAIN map) \cup {key} |-> IF k = key THEN value ELSE map[k]]

\* EvalConfig::default: special_char is '%', the one include path is ".",
\* Python is not enabled, and backups go to "_azadi_work".
include_paths == <<<<".">>>>
python_enabled == FALSE
backup_dir == <<"_", "a", "z", "a", "d", "i", "_", "w", "o", "r", "k">>

\* ScopeFrame::default
NewScopeFrame == [variables |-> EmptyMap, macros |-> EmptyMap]

\* SourceManager::new
NewSourceManager ==
    [source_files |-> <<>>, file_names |-> <<>>, sources_by_path |-> EmptyMap]

\* The working directory of the process.
Cwd == <<"/", "w">>

\* The pieces of c from the k-th on without the "." ones, a "/" before each.
RECURSIVE join_components(_, _)
join_components(c, k) ==
    IF k > Len(c) THEN <<>>
    ELSE IF c[k] = <<".">> THEN join_components(c, k + 1)
    ELSE <<"/">> \o c[k] \o join_components(c, k + 1)

\* A path as PathBuf compares and hashes it, by components: repeated "/"
\* and every "." but a leading one count for nothing.
path_buf(path) ==
    IF IsAbsolute(path) THEN join_components(Components(path), 1)
    ELSE IF StartsWith(path, <<".", "/">>) \/ path = <<".">>
    THEN <<".">> \o join_components(Components(path), 1)
    ELSE Drop(join_components(Components(path), 1), 1)

\* Path::canonicalize, on paths without links and "..": the absolute path,
\* no "." in it.
canonicalize(path) ==
    IF IsAbsolute(path) THEN join_components(Components(path), 1)
    ELSE join_components(Components(Cwd \o <<"/">> \o path), 1)

\* Path::exists and is_file: files maps the canonical paths of the files on
\* disk to their contents.
path_exists(files, path) == canonicalize(path) \in DOMAIN files

\* SourceManager::add_source_bytes: the new source's index is the number of
\* sources before the call.
add_source_bytes(sm, content, path) ==
    [source_files |-> Append(sm.source_files, content),
     file_names |-> Append(sm.file_names, path),
     sources_by_path |-> Insert(sm.sources_by_path, path, Len(sm.source_files))]

\* SourceManager::add_source_if_not_present, for a path that exists:
\* [sm, src].
add_source_if_not_present(sm, files, file_path) ==
    IF canonicalize(file_path) \in DOMAIN sm.sources_by_path
    THEN [sm |-> sm, src |-> sm.sources_by_path[canonicalize(file_path)]]
    ELSE [sm |-> add_source_bytes(sm, files[canonicalize(file_path)],
                                  canonicalize(file_path)),
          src |-> Len(sm.source_files)]

\* SourceManager::get_source: <<>> for None, <<content>> for Some.
get_source(sm, src) ==
    IF src >= 0 /\ src < Len(sm.source_files) THEN <<sm.source_files[src + 1]>>
    ELSE <<>>

\* EvaluatorState::new
NewEvaluatorState ==
    [scope_stack |-> <<NewScopeFrame>>, open_includes |-> {},
     current_file |-> <<>>, source_manager |-> NewSourceManager]

push_scope(state) == [state EXCEPT !.scope_stack = Append(@, NewScopeFrame)]

pop_scope(state) ==
    IF Len(state.scope_stack) > 1
    THEN [state EXCEPT !.scope_stack = SubSeq(@, 1, Len(@) - 1)]
    ELSE state

current_scope(state) == state.scope_stack[Len(state.scope_stack)]

\* A variant of set_variable that writes to the outermost frame.
set_variable_in_root(state, name, value) ==
    [state EXCEPT !.scope_stack[1].variables = Insert(@, name, value)]

set_variable(state, name, value) ==
    [state EXCEPT !.scope_stack[Len(state.scope_stack)].variables =
                      Insert(@, name, value)]

\* get_variable, the frames from the i-th down.
RECURSIVE get_variable_from(_, _, _)
get_variable_from(state, name, i) ==
    IF i = 0 THEN <<>>
    ELSE IF name \in DOMAIN state.scope_stack[i].variables
    THEN state.scope_stack[i].variables[name]
    ELSE get_variable_from(state, name, i - 1)

\* The lookup that finds no variable.
get_variable_unset(state, name) == <<>>

get_variable(state, name) == get_variable_from(state, name, Len(state.scope_stack))

define_macro(state, mac) ==
    [state EXCEPT !.scope_stack[Len(state.scope_stack)].macros =
                      Insert(@, mac.name, mac)]

\* get_macro, the frames from the i-th down: <<>> for None, <<mac>> for Some.
RECURSIVE get_macro_from(_, _, _)
get_macro_from(state, name, i) ==
    IF i = 0 THEN <<>>
    ELSE IF name \in DOMAIN state.scope_stack[i].macros
    THEN <<state.scope_stack[i].macros[name]>>
    ELSE get_macro_from(state, name, i - 1)

get_macro(state, name) == get_macro_from(state, name, Len(state.scope_stack))

(***************************************************************************)
(* Evaluator (evaluator/core.rs, builtins.rs, eval_api.rs)                 *)
(***************************************************************************)
\* Evaluator::new with the default configuration; files is the disk and log
\* the history of the definitions, exports and user-macro calls made.
NewEvaluator(files) ==
    [state |-> NewEvaluatorState, files |-> files, log |-> <<>>, including |-> <<>>,
     evaluated |-> 0]

\* EvalError, and the value that stands for no error.
EvalError(kind, detail) == [kind |-> kind, detail |-> detail]
NoEvalError == EvalError("None", <<>>)

\* EvalResult<String> together with the evaluator the call leaves behind.
Ok(self, out) == [self |-> self, out |-> out, err |-> NoEvalError]
Err(self, err) == [self |-> self, out |-> <<>>, err |-> err]
IsOk(r) == r.err = NoEvalError

\* The names default_builtins registers.  The case conversions are
\* registered and not modelled: no source of the model calls them.
builtins ==
    {<<"d", "e", "f">>, <<"p", "y", "d", "e", "f">>, <<"i", "n", "c", "l", "u", "d", "e">>, <<"i", "n", "c", "l", "u", "d", "e", "_", "s", "i", "l", "e", "n", "t">>, <<"i", "f">>, <<"e", "q", "u", "a", "l">>, <<"s", "e", "t">>,
     <<"e", "x", "p", "o", "r", "t">>, <<"e", "v", "a", "l">>, <<"h", "e", "r", "e">>, <<"c", "a", "p", "i", "t", "a", "l", "i", "z", "e">>, <<"d", "e", "c", "a", "p", "i", "t", "a", "l", "i", "z", "e">>, <<"c", "o", "n", "v", "e", "r", "t", "_", "c", "a", "s", "e">>,
     <<"t", "o", "_", "s", "n", "a", "k", "e", "_", "c", "a", "s", "e">>, <<"t", "o", "_", "c", "a", "m", "e", "l", "_", "c", "a", "s", "e">>, <<"t", "o", "_", "p", "a", "s", "c", "a", "l", "_", "c", "a", "s", "e">>, <<"t", "o", "_", "s", "c", "r", "e", "a", "m", "i", "n", "g", "_", "c", "a", "s", "e">>}

\* node_text, the slice of the source that a token of the given kind names.
node_text_slice(source, kind, start, end) ==
    IF end > Len(source) \/ start > Len(source) THEN <<>>
    ELSE IF kind \in {"BlockOpen", "BlockClose", "Macro"}
    THEN (IF end > start + 2 THEN SubSeq(source, start + 2, end - 1)
          ELSE SubSeq(source, start + 1, end))
    ELSE IF kind = "Var"
    THEN (IF end > start + 3 THEN SubSeq(source, start + 3, end - 1)
          ELSE SubSeq(source, start + 1, end))
    ELSE IF kind = "Special"
    THEN (IF end > start + 1 THEN SubSeq(source, start + 1, end - 1)
          ELSE SubSeq(source, start + 1, end))
    ELSE SubSeq(source, start + 1, end)

node_text_in(source, token) ==
    IF source = <<>> THEN <<>>
    ELSE node_text_slice(source[1], token.kind, token.pos, token.pos + token.length)

node_text(self, node) ==
    node_text_in(get_source(self.state.source_manager, node.token.src), node.token)

RECURSIVE evaluate(_, _)
RECURSIVE evaluate_node(_, _)
RECURSIVE evaluate_parts(_, _, _, _)
RECURSIVE evaluate_macro_call(_, _, _)
RECURSIVE do_include(_, _)

\* evaluate, the loop over the children of a node.
\* The loop going on after a child failed, its error dropped.
evaluate_parts_past_error(r, parts, k, out) ==
    evaluate_parts(r.self, parts, k + 1, out \o r.out)

\* evaluate, the loop over a node's children after the k-th is evaluated:
\* `?` returns its error, else its text is pushed and the loop goes on.
evaluate_parts_next(r, parts, k, out) ==
    IF IsOk(r) THEN evaluate_parts(r.self, parts, k + 1, out \o r.out) ELSE r

evaluate_parts(self, parts, k, out) ==
    IF k > Len(parts) THEN Ok(self, out)
    ELSE evaluate_parts_next(evaluate(self, parts[k]), parts, k, out)

\* evaluate, for a node of each kind.
evaluate_node(self, node) ==
    IF node.kind \in {"Text", "Space", "Ident"} THEN Ok(self, node_text(self, node))
    ELSE IF node.kind = "Var"
    THEN Ok(self, get_variable(self.state, node_text(self, node)))
    ELSE IF node.kind = "Macro"
    THEN evaluate_macro_call(self, node, node_text(self, node))
    ELSE IF node.kind \in {"LineComment", "BlockComment"} THEN Ok(self, <<>>)
    ELSE evaluate_parts(self, node.parts, 1, <<>>)

\* Evaluator::evaluate; the evaluator counts the nodes whose evaluation has
\* begun (history).
evaluate(self, node) == evaluate_node([self EXCEPT !.evaluated = @ + 1], node)

\* collect_freeze_vars: a Var node is evaluated in the current scope.
RECURSIVE collect_freeze_vars(_, _, _, _)
RECURSIVE collect_freeze_parts(_, _, _, _, _)

collect_freeze_var(self, node, var_name, keep, frozen) ==
    IF var_name \notin keep /\ var_name \notin DOMAIN frozen
    THEN Insert(frozen, var_name, evaluate(self, node).out)
    ELSE frozen

collect_freeze_parts(self, parts, k, keep, frozen) ==
    IF k > Len(parts) THEN frozen
    ELSE collect_freeze_parts(self, parts, k + 1, keep,
                              collect_freeze_vars(self, parts[k], keep, frozen))

collect_freeze_vars(self, node, keep, frozen) ==
    collect_freeze_parts(self, node.parts, 1, keep,
        IF node.kind = "Var"
        THEN collect_freeze_var(self, node, Trim(node_text(self, node)), keep, frozen)
        ELSE frozen)

\* freeze_macro_definition; exports counts the exports the definition went
\* through (history).
freeze_macro_definition(self, mac) ==
    [mac EXCEPT !.frozen_args =
                    collect_freeze_vars(self, mac.body,
                        {mac.params[i] : i \in 1..Len(mac.params)}, EmptyMap),
                !.exports = @ + 1]

\* export, the variable of that name.
export_variable(state, name) ==
    IF name \in DOMAIN current_scope(state).variables
    THEN [state EXCEPT !.scope_stack[Len(state.scope_stack) - 1].variables =
                           Insert(@, name, current_scope(state).variables[name])]
    ELSE state

\* export, the macro of that name.
export_macro(self, name) ==
    IF name \in DOMAIN current_scope(self.state).macros
    THEN [self EXCEPT !.state.scope_stack[Len(self.state.scope_stack) - 1].macros =
              Insert(@, name,
                     freeze_macro_definition(self,
                         current_scope(self.state).macros[name]))]
    ELSE self

\* Evaluator::export; the log takes the name and the state it is exported in.
export(self, name) ==
    IF Len(self.state.scope_stack) <= 1 THEN self
    ELSE export_macro([self EXCEPT !.state = export_variable(@, name),
                                   !.log = Append(@, [ev |-> "export", name |-> name,
                                                      state |-> self.state])],
                      name)

\* The frozen_args of a macro set as variables of the current scope.
RECURSIVE set_variables(_, _, _)
set_variables(state, map, names) ==
    IF names = {} THEN state
    ELSE set_variables(
             set_variable(state, CHOOSE n \in names : TRUE,
                          map[CHOOSE n \in names : TRUE]),
             map, names \ {CHOOSE n \in names : TRUE})

is_param(p) == p.kind = "Param"

\* evaluate_macro_call, the loop over the formal parameters.
RECURSIVE bind_params(_, _, _, _)
bind_param_value(r, mac, param_nodes, i) ==
    IF IsOk(r)
    THEN bind_params([r.self EXCEPT !.state = set_variable(@, mac.params[i], r.out)],
                     mac, param_nodes, i + 1)
    ELSE r

bind_params(self, mac, param_nodes, i) ==
    IF i > Len(mac.params) THEN Ok(self, <<>>)
    ELSE IF i <= Len(param_nodes)
    THEN bind_param_value(evaluate(self, param_nodes[i]), mac, param_nodes, i)
    ELSE bind_params([self EXCEPT !.state = set_variable(@, mac.params[i], <<>>)],
                     mac, param_nodes, i + 1)

\* evaluate_macro_call, the Python step: with Python not enabled the result
\* of the body is the result.
user_call_python(r, mac) ==
    IF IsOk(r) /\ mac.is_python /\ python_enabled
    THEN Err(r.self, EvalError("Runtime", <<"P", "y", "t", "h", "o", "n", " ", "e", "v", "a", "l", "u", "a", "t", "o", "r", " ", "n", "o", "t", " ", "c", "o", "n", "f", "i", "g", "u", "r", "e", "d">>))
    ELSE r

\* evaluate_macro_call, the body after the parameters are bound.
user_call_body(r, mac) ==
    IF IsOk(r) THEN user_call_python(evaluate(r.self, mac.body), mac) ELSE r

\* evaluate_macro_call, the end: the scope is popped when no error came up.
user_call_return(r) ==
    IF IsOk(r) THEN [r EXCEPT !.self.state = pop_scope(@)] ELSE r

\* History: the call, the state it was made in, the frame of the callee when
\* it ended and the scope stack it left.
log_call(entry, node, name, mac, frame, r) ==
    [r EXCEPT !.self.log =
        Append(@, [ev |-> "call", name |-> name, node |-> node, mac |-> mac,
                   start |-> Len(entry.log), before |-> entry.state,
                   frame |-> frame, after |-> r.self.state.scope_stack,
                   out |-> r.out, err |-> r.err])]

user_call_end(entry, node, name, mac, r) ==
    log_call(entry, node, name, mac, current_scope(r.self.state), user_call_return(r))

\* evaluate_macro_call, for a user macro.
user_call(self, node, name, mac) ==
    user_call_end(self, node, name, mac,
        user_call_body(
            bind_params(
                [self EXCEPT !.state = set_variables(push_scope(@), mac.frozen_args,
                                                     DOMAIN mac.frozen_args)],
                mac, SelectSeq(node.parts, is_param), 1),
            mac))

\* single_ident_param: [ok, text] or [ok = FALSE, err].
ParamOk(text) == [ok |-> TRUE, text |-> text, err |-> NoEvalError]
ParamErr(detail) == [ok |-> FALSE, text |-> <<>>, err |-> EvalError("InvalidUsage", detail)]

is_not_skippable(child) == ~is_skippable(child.kind)

single_ident_text(text, desc) ==
    IF text = <<>> THEN ParamErr(desc \o <<" ", "c", "a", "n", "n", "o", "t", " ", "b", "e", " ", "e", "m", "p", "t", "y">>)
    ELSE IF text[1] \in AsciiDigit THEN ParamErr(desc \o <<" ", "c", "a", "n", "n", "o", "t", " ", "s", "t", "a", "r", "t", " ", "w", "i", "t", "h", " ", "a", " ", "n", "u", "m", "b", "e", "r">>)
    ELSE ParamOk(text)

single_ident_nonspace(self, nonspace, desc) ==
    IF Len(nonspace) # 1 THEN ParamErr(desc \o <<" ", "m", "u", "s", "t", " ", "b", "e", " ", "a", " ", "s", "i", "n", "g", "l", "e", " ", "i", "d", "e", "n", "t", "i", "f", "i", "e", "r">>)
    ELSE IF nonspace[1].kind # "Ident"
    THEN ParamErr(desc \o <<" ", "m", "u", "s", "t", " ", "b", "e", " ", "a", " ", "s", "i", "n", "g", "l", "e", " ", "i", "d", "e", "n", "t", "i", "f", "i", "e", "r">>)
    ELSE single_ident_text(Trim(node_text(self, nonspace[1])), desc)

single_ident_param(self, param_node, desc) ==
    IF param_node.kind # "Param" THEN ParamErr(desc \o <<" ", "m", "u", "s", "t", " ", "b", "e", " ", "a", " ", "P", "a", "r", "a", "m", " ", "n", "o", "d", "e">>)
    ELSE IF param_node.name # <<>>
    THEN ParamErr(desc \o <<" ", "m", "u", "s", "t", " ", "b", "e", " ", "a", " ", "s", "i", "n", "g", "l", "e", " ", "i", "d", "e", "n", "t", "i", "f", "i", "e", "r", " ", "(", "f", "o", "u", "n", "d", " ", "a", "n", " ", "'", "=", "'", " ", "s", "t", "y", "l", "e", " ", "p", "a", "r", "a", "m", "?", ")">>)
    ELSE single_ident_nonspace(self, SelectSeq(param_node.parts, is_not_skippable), desc)

\* define_macro of builtins.rs, the fold over the formal parameters:
\* [ok, params] or [ok = FALSE, err].
RECURSIVE def_params(_, _, _, _, _)
def_param(self, parts, k, acc, config, p) ==
    IF ~p.ok THEN [ok |-> FALSE, params |-> <<>>, err |-> p.err]
    ELSE IF \E i \in 1..Len(acc) : acc[i] = p.text
    THEN [ok |-> FALSE, params |-> <<>>,
          err |-> EvalError("InvalidUsage",
                      config.duplicate_param_error \o <<":", " ", "p", "a", "r", "a", "m", "e", "t", "e", "r", " ", "'">> \o p.text
                      \o <<"'", " ", "a", "l", "r", "e", "a", "d", "y", " ", "u", "s", "e", "d">>)]
    ELSE def_params(self, parts, k + 1, Append(acc, p.text), config)

def_params(self, parts, k, acc, config) ==
    IF k >= Len(parts) THEN [ok |-> TRUE, params |-> acc, err |-> NoEvalError]
    ELSE def_param(self, parts, k, acc, config,
                   single_ident_param(self, parts[k], config.formal_param_context))

\* define_macro of builtins.rs, the definition made; origin is the place of
\* the definition in the log (history).
def_macro(self, macro_name, body_node, param_list, config) ==
    Ok([self EXCEPT
            !.state = define_macro(@,
                [name |-> macro_name, params |-> param_list, body |-> body_node,
                 is_python |-> config.is_python, frozen_args |-> EmptyMap,
                 origin |-> Len(self.log) + 1, exports |-> 0]),
            !.log = Append(@, [ev |-> "def", name |-> macro_name])],
       <<>>)

def_named(self, node, config, macro_name, params) ==
    IF ~macro_name.ok THEN Err(self, macro_name.err)
    ELSE IF ~params.ok THEN Err(self, params.err)
    ELSE def_macro(self, macro_name.text, node.parts[Len(node.parts)],
                   params.params, config)

builtin_define_macro(self, node, config) ==
    IF Len(node.parts) < 2
    THEN Err(self, EvalError("InvalidUsage", config.min_params_error))
    ELSE def_named(self, node, config,
                   single_ident_param(self, node.parts[1], config.name_param_context),
                   def_params(self, node.parts, 2, <<>>, config))

builtin_def(self, node) ==
    builtin_define_macro(self, node,
        [min_params_error |-> <<"d", "e", "f", " ", "r", "e", "q", "u", "i", "r", "e", "s", " ", "a", "t", " ", "l", "e", "a", "s", "t", " ", "(", "n", "a", "m", "e", ",", " ", "b", "o", "d", "y", ")">>,
         name_param_context |-> <<"m", "a", "c", "r", "o", " ", "n", "a", "m", "e">>,
         formal_param_context |-> <<"f", "o", "r", "m", "a", "l", " ", "p", "a", "r", "a", "m", "e", "t", "e", "r">>,
         duplicate_param_error |-> <<"d", "e", "f">>, is_python |-> FALSE])

builtin_pydef(self, node) ==
    builtin_define_macro(self, node,
        [min_params_error |-> <<"p", "y", "d", "e", "f", " ", "r", "e", "q", "u", "i", "r", "e", "s", " ", "a", "t", " ", "l", "e", "a", "s", "t", " ", "(", "n", "a", "m", "e", ",", " ", "b", "o", "d", "y", ")">>,
         name_param_context |-> <<"p", "y", "d", "e", "f", " ", "n", "a", "m", "e">>,
         formal_param_context |-> <<"p", "y", "d", "e", "f", " ", "p", "a", "r", "a", "m", "e", "t", "e", "r">>,
         duplicate_param_error |-> <<"p", "y", "d", "e", "f">>, is_python |-> TRUE])

\* process_include_file
include_named(r) ==
    IF ~IsOk(r) THEN r
    ELSE IF Trim(r.out) = <<>> THEN Ok(r.self, <<>>)
    ELSE do_include(r.self, r.out)

process_include_file(self, node) ==
    IF node.parts = <<>> THEN Ok(self, <<>>)
    ELSE include_named(evaluate(self, node.parts[1]))

builtin_include(self, node) == process_include_file(self, node)

include_silenced(r) == IF IsOk(r) THEN Ok(r.self, <<>>) ELSE r

builtin_include_silent(self, node) ==
    include_silenced(process_include_file(self, node))

\* builtin_if, after the condition.
if_branch(r, parts) ==
    IF ~IsOk(r) THEN r
    ELSE IF Trim(r.out) # <<>>
    THEN (IF Len(parts) > 1 THEN evaluate(r.self, parts[2]) ELSE Ok(r.self, <<>>))
    ELSE (IF Len(parts) > 2 THEN evaluate(r.self, parts[3]) ELSE Ok(r.self, <<>>))

builtin_if(self, node) ==
    IF node.parts = <<>> THEN Ok(self, <<>>)
    ELSE if_branch(evaluate(self, node.parts[1]), node.parts)

\* builtin_equal, after the first and after the second argument.
equal_second(a, r) ==
    IF ~IsOk(r) THEN r
    ELSE IF a = r.out THEN Ok(r.self, a) ELSE Ok(r.self, <<>>)

equal_first(r, parts) ==
    IF IsOk(r) THEN equal_second(r.out, evaluate(r.self, parts[2])) ELSE r

builtin_equal(self, node) ==
    IF Len(node.parts) # 2
    THEN Err(self, EvalError("InvalidUsage", <<"e", "q", "u", "a", "l", ":", " ", "e", "x", "a", "c", "t", "l", "y", " ", "2", " ", "a", "r", "g", "s">>))
    ELSE equal_first(evaluate(self, node.parts[1]), node.parts)

\* builtin_set, after the value.
set_value(var_name, r) ==
    IF IsOk(r)
    THEN Ok([r.self EXCEPT !.state = set_variable(@, var_name, r.out)], <<>>)
    ELSE r

set_named(self, node, var_name) ==
    IF var_name.ok THEN set_value(var_name.text, evaluate(self, node.parts[2]))
    ELSE Err(self, var_name.err)

builtin_set(self, node) ==
    IF Len(node.parts) # 2
    THEN Err(self, EvalError("InvalidUsage", <<"s", "e", "t", ":", " ", "e", "x", "a", "c", "t", "l", "y", " ", "2", " ", "a", "r", "g", "s">>))
    ELSE set_named(self, node, single_ident_param(self, node.parts[1], <<"v", "a", "r", " ", "n", "a", "m", "e">>))

export_named(self, name) ==
    IF name.ok THEN Ok(export(self, name.text), <<>>) ELSE Err(self, name.err)

builtin_export(self, node) ==
    IF Len(node.parts) # 1
    THEN Err(self, EvalError("InvalidUsage", <<"e", "x", "p", "o", "r", "t", ":", " ", "e", "x", "a", "c", "t", "l", "y", " ", "1", " ", "a", "r", "g">>))
    ELSE export_named(self, single_ident_param(self, node.parts[1], <<"v", "a", "r", " ", "n", "a", "m", "e">>))

\* builtin_eval, after the name.
eval_named(r, node) ==
    IF ~IsOk(r) THEN r
    ELSE IF Trim(r.out) = <<>> THEN Ok(r.self, <<>>)
    ELSE evaluate_macro_call(r.self,
             NewASTNode("Macro", node.src, node.token, node.end_pos,
                        Drop(node.parts, 1), <<>>),
             Trim(r.out))

builtin_eval(self, node) ==
    IF node.parts = <<>>
    THEN Err(self, EvalError("InvalidUsage", <<"e", "v", "a", "l", " ", "r", "e", "q", "u", "i", "r", "e", "s", " ", "m", "a", "c", "r", "o", "N", "a", "m", "e">>))
    ELSE eval_named(evaluate(self, node.parts[1]), node)

\* An insertion of modify_source: (pos, text, skip_to_newline).
Insertion(pos, text, skip_to_newline) ==
    [pos |-> pos, text |-> text, skip_to_newline |-> skip_to_newline]

\* sort_by_key(pos), a stable sort: x put behind the entries of sorted that
\* are not after it.
RECURSIVE insert_by_pos(_, _)
insert_by_pos(sorted, x) ==
    IF sorted = <<>> \/ sorted[Len(sorted)].pos <= x.pos THEN Append(sorted, x)
    ELSE Append(insert_by_pos(SubSeq(sorted, 1, Len(sorted) - 1), x),
                sorted[Len(sorted)])

RECURSIVE sort_by_pos(_)
sort_by_pos(insertions) ==
    IF insertions = <<>> THEN <<>>
    ELSE insert_by_pos(sort_by_pos(SubSeq(insertions, 1, Len(insertions) - 1)),
                       insertions[Len(insertions)])

\* modify_source, the inner loop: the first index from idx on (counted from
\* 0) that holds a newline or is past the end.
RECURSIVE line_end_from(_, _)
line_end_from(content, idx) ==
    IF idx < Len(content) /\ content[idx + 1] # "\n"
    THEN line_end_from(content, idx + 1) ELSE idx

\* The index after the newline at idx, if there is one.
after_newline(content, idx) == IF idx < Len(content) THEN idx + 1 ELSE idx

\* &content[from..to]; a slice that starts after its end panics.
byte_slice(content, from, to) == SubSeq(content, from + 1, to)

\* modify_source, the body of the loop for one insertion.
modify_insert(content, m, ins) ==
    [ok |-> m.ok /\ (ins.pos < Len(content) => m.last_pos <= ins.pos),
     result |-> m.result
                \o byte_slice(content, m.last_pos,
                              IF ins.pos < Len(content) THEN ins.pos ELSE Len(content))
                \o ins.text,
     last_pos |-> IF ins.skip_to_newline
                  THEN after_newline(content, line_end_from(content, ins.pos))
                  ELSE Min(ins.pos, Len(content))]

\* modify_source, the loop over the sorted insertions from the k-th on.
RECURSIVE modify_loop(_, _, _, _)
modify_loop(content, m, sorted, k) ==
    IF k > Len(sorted) THEN m
    ELSE modify_loop(content, modify_insert(content, m, sorted[k]), sorted, k + 1)

\* modify_source, after the loop: the rest of the content.
modified_content(content, m) ==
    IF m.last_pos < Len(content)
    THEN m.result \o byte_slice(content, m.last_pos, Len(content))
    ELSE m.result

\* backup_source_file: the copy's path, under the backup directory the
\* canonical path of the source without its leading "/".
backup_path(source_file, dir) ==
    canonicalize(dir \o <<"/">> \o Drop(canonicalize(source_file), 1))

\* modify_source with a backup directory: [ok, files]; not ok when the
\* source file does not exist (io::Error) and when a slice panics.
modify_source_written(files, source_file, content, m) ==
    [ok |-> m.ok,
     files |-> Insert(Insert(files, backup_path(source_file, backup_dir), content),
                      canonicalize(source_file), modified_content(content, m))]

modify_source(files, source_file, insertions) ==
    IF ~path_exists(files, source_file) THEN [ok |-> FALSE, files |-> files]
    ELSE modify_source_written(files, source_file, files[canonicalize(source_file)],
             modify_loop(files[canonicalize(source_file)],
                         [ok |-> TRUE, result |-> <<>>, last_pos |-> 0],
                         sort_by_pos(insertions), 1))

\* The log takes every here call that rewrote a file: where the call
\* stands and in which source, its expansion, the file rewritten, the disk
\* before and after, and the nodes evaluated so far.
log_here(self, node, expansion, files) ==
    [self EXCEPT !.files = files,
                 !.log = Append(@,
                     [ev |-> "here", start |-> node.token.pos,
                      end_pos |-> node.end_pos, expansion |-> expansion,
                      source |-> self.state.source_manager.file_names[node.src + 1],
                      path |-> self.state.current_file,
                      before |-> self.files, after |-> files,
                      evaluated |-> self.evaluated])]

\* builtin_here, after modify_source (whose slices cannot panic here: the
\* call's start is before its end).
here_modified(self, node, expansion, m) ==
    IF m.ok THEN Err(log_here(self, node, expansion, m.files),
                     EvalError("Terminate", <<>>))
    ELSE Err(self, EvalError("IoError", self.state.current_file))

\* builtin_here, after builtin_eval.
here_expanded(r, node) ==
    IF ~IsOk(r) THEN r
    ELSE here_modified(r.self, node, r.out,
             modify_source(r.self.files, r.self.state.current_file,
                 <<Insertion(node.token.pos, <<"%">>, FALSE),
                   Insertion(node.end_pos, r.out, TRUE)>>))

builtin_here(self, node) ==
    IF node.parts = <<>> THEN Ok(self, <<>>)
    ELSE here_expanded(builtin_eval(self, node), node)

\* The call of the builtin registered under name.
builtin_call(self, node, name) ==
    IF name = <<"d", "e", "f">> THEN builtin_def(self, node)
    ELSE IF name = <<"p", "y", "d", "e", "f">> THEN builtin_pydef(self, node)
    ELSE IF name = <<"i", "n", "c", "l", "u", "d", "e">> THEN builtin_include(self, node)
    ELSE IF name = <<"i", "n", "c", "l", "u", "d", "e", "_", "s", "i", "l", "e", "n", "t">> THEN builtin_include_silent(self, node)
    ELSE IF name = <<"i", "f">> THEN builtin_if(self, node)
    ELSE IF name = <<"e", "q", "u", "a", "l">> THEN builtin_equal(self, node)
    ELSE IF name = <<"s", "e", "t">> THEN builtin_set(self, node)
    ELSE IF name = <<"e", "x", "p", "o", "r", "t">> THEN builtin_export(self, node)
    ELSE IF name = <<"e", "v", "a", "l">> THEN builtin_eval(self, node)
    ELSE IF name = <<"h", "e", "r", "e">> THEN builtin_here(self, node)
    ELSE Err(self, EvalError("NotModelled", name))

user_call_found(self, node, name, mac) ==
    IF mac = <<>> THEN Err(self, EvalError("UndefinedMacro", name))
    ELSE user_call(self, node, name, mac[1])

evaluate_macro_call(self, node, name) ==
    IF name \in builtins THEN builtin_call(self, node, name)
    ELSE user_call_found(self, node, name, get_macro(self.state, name))

\* Path::join
path_join(base, path) ==
    path_buf(IF IsAbsolute(path) THEN path ELSE base \o <<"/">> \o path)

\* find_file, the include paths from the k-th on: <<>> when none holds the
\* file, else <<candidate>>.
RECURSIVE find_in_paths(_, _, _)
find_in_paths(files, filename, k) ==
    IF k > Len(include_paths) THEN <<>>
    ELSE IF path_exists(files, path_join(include_paths[k], filename))
    THEN <<path_join(include_paths[k], filename)>>
    ELSE find_in_paths(files, filename, k + 1)

find_file(self, filename) ==
    IF IsAbsolute(filename) /\ path_exists(self.files, filename)
    THEN <<path_buf(filename)>>
    ELSE find_in_paths(self.files, filename, 1)

\* parse_string, the source registered: [self, src].
parse_string_source(self, text, path) ==
    IF path_exists(self.files, path)
    THEN add_source_if_not_present(self.state.source_manager, self.files, path)
    ELSE [sm |-> add_source_bytes(self.state.source_manager, text, path),
          src |-> Len(self.state.source_manager.source_files)]

parse_string_lexed(self, added, text) ==
    [self |-> [self EXCEPT !.state.source_manager = added.sm],
     parsed |-> lex_parse_content(text, added.src)]

\* parse_string: [self, parsed], parsed as lex_parse_content returns it.
parse_string(self, text, path) ==
    parse_string_lexed(self, parse_string_source(self, text, path), text)

\* The log takes the return of every include that began (history).
log_included(r, path) ==
    [r EXCEPT !.self.log = Append(@, [ev |-> "included", path |-> path,
                                      ok |-> IsOk(r)])]

\* do_include with the path removed from open_includes on failure too.
include_close_always(r, path) ==
    log_included([r EXCEPT !.self.state.open_includes = @ \ {path},
                           !.self.including = SubSeq(@, 1, Len(@) - 1)],
                 path)

\* do_include, after the included file is evaluated: `?` returns the error,
\* else the path is removed from open_includes; the include is no longer in
\* progress (history).
include_close(r, path) ==
    IF IsOk(r)
    THEN log_included([r EXCEPT !.self.state.open_includes = @ \ {path},
                                !.self.including = SubSeq(@, 1, Len(@) - 1)],
                      path)
    ELSE log_included(r, path)

\* do_include, after the file is parsed.
include_parsed(p, path) ==
    IF p.parsed.ok THEN include_close(evaluate(p.self, p.parsed.ast[1]), path)
    ELSE log_included(Err(p.self, EvalError("ParseError", <<>>)), path)

\* The log takes every include of a file that was found: the path, the
\* files whose include is in progress, and whether it is refused.
log_include(self, filename, path, circular) ==
    [self EXCEPT !.log = Append(@, [ev |-> "include", filename |-> filename,
                                    path |-> path, including |-> self.including,
                                    circular |-> circular])]

\* The include of path begins: it is in progress from here on (history).
include_begin(self, path) ==
    [self EXCEPT !.state.open_includes = @ \cup {path},
                 !.including = Append(@, canonicalize(path))]

include_found(self, filename, path) ==
    IF path = <<>> THEN Err(self, EvalError("IncludeNotFound", filename))
    ELSE IF path[1] \in self.state.open_includes
    THEN Err(log_include(self, filename, path[1], TRUE),
             EvalError("CircularInclude", path[1]))
    ELSE include_parsed(
             parse_string(include_begin(log_include(self, filename, path[1], FALSE),
                                        path[1]),
                          self.files[canonicalize(path[1])], path[1]),
             path[1])

do_include(self, filename) == include_found(self, filename, find_file(self, filename))

\* eval_string, after the source is parsed.
eval_parsed(p, real_path) ==
    IF p.parsed.ok
    THEN evaluate(IF real_path # <<>>
                  THEN [p.self EXCEPT !.state.current_file = real_path[1]]
                  ELSE p.self,
                  p.parsed.ast[1])
    ELSE Err(p.self, EvalError("ParseError", <<>>))

\* eval_string; real_path is <<>> for None, <<path>> for Some(path).  No
\* include is in progress when it is called (history).
eval_string(source, real_path, self) ==
    eval_parsed(
        parse_string([self EXCEPT !.including = <<>>], source,
            IF real_path # <<>> THEN real_path[1]
            ELSE <<"<", "s", "t", "r", "i", "n", "g", "-">> \o Decimal(Len(self.state.source_manager.source_files))
                 \o <<">">>),
        real_path)

(***************************************************************************)
(* The evaluator run on a corpus of sources, one eval_string at a time.    *)
(***************************************************************************)
\* The files on disk, by canonical path: d.txt defines and sets; c.txt
\* includes itself under the name it was included by; s.txt includes itself
\* once, by its absolute path.
File_d == <<"%", "d", "e", "f", "(", "i", "m", ",", " ", "x", ",", " ", "I", "%", "(", "x", ")", ")", "%", "s", "e", "t", "(", "i", "v", ",", " ", "1", ")">>
File_c == <<"C", "%", "i", "n", "c", "l", "u", "d", "e", "(", "c", ".", "t", "x", "t", ")">>
File_s == <<"%", "i", "f", "(", "%", "(", "n", ")", ",", "S", ",", "%", "s", "e", "t", "(", "n", ",", "1", ")", "%", "i", "n", "c", "l", "u", "d", "e", "(", "/", "w", "/", "s", ".", "t", "x", "t", ")", ")">>

\* A file that does not parse: its block comment is not closed.
File_u == <<"U", "%", "/", "*">>

\* Files that call here: at top level with text behind the call on its
\* line; in the body of a macro; in an argument; in a branch of if; through
\* eval; in the value of set; and in a file that another includes.
File_top == <<"%", "d", "e", "f", "(", "x", ",", " ", "a", ",", " ", "Y", "%", "(", "a", ")", ")", "A", "%", "h", "e", "r", "e", "(", "x", ",", " ", "1", ")", "B", "\n", "C", "%", "s", "e", "t", "(", "l", "a", "t", "e", ",", " ", "1", ")">>
File_body == <<"%", "d", "e", "f", "(", "x", ",", " ", "Y", ")", "%", "d", "e", "f", "(", "k", ",", " ", "a", ",", " ", "K", "%", "h", "e", "r", "e", "(", "x", ")", "%", "(", "a", ")", ")", "%", "k", "(", "1", ")", "%", "s", "e", "t", "(", "l", "a", "t", "e", ",", " ", "1", ")">>
File_arg == <<"%", "d", "e", "f", "(", "x", ",", " ", "Y", ")", "%", "d", "e", "f", "(", "k", ",", " ", "a", ",", " ", "K", "%", "(", "a", ")", ")", "%", "k", "(", "%", "h", "e", "r", "e", "(", "x", ")", ")", "%", "s", "e", "t", "(", "l", "a", "t", "e", ",", " ", "1", ")">>
File_if == <<"%", "d", "e", "f", "(", "x", ",", " ", "Y", ")", "%", "i", "f", "(", "1", ",", "%", "h", "e", "r", "e", "(", "x", ")", "%", "s", "e", "t", "(", "l", "a", "t", "e", ",", " ", "1", ")", ")">>
File_eval == <<"%", "d", "e", "f", "(", "x", ",", " ", "Y", ")", "%", "d", "e", "f", "(", "k", ",", " ", "%", "h", "e", "r", "e", "(", "x", ")", ")", "%", "e", "v", "a", "l", "(", "k", ")", "%", "s", "e", "t", "(", "l", "a", "t", "e", ",", " ", "1", ")">>
File_set == <<"%", "d", "e", "f", "(", "x", ",", " ", "Y", ")", "%", "s", "e", "t", "(", "v", ",", " ", "%", "h", "e", "r", "e", "(", "x", ")", ")", "%", "s", "e", "t", "(", "l", "a", "t", "e", ",", " ", "1", ")">>
File_inner == <<"%", "d", "e", "f", "(", "x", ",", " ", "Y", ")", "%", "h", "e", "r", "e", "(", "x", ")">>
File_outer == <<"O", "%", "i", "n", "c", "l", "u", "d", "e", "(", "i", "n", "n", "e", "r", ".", "t", "x", "t", ")", "%", "s", "e", "t", "(", "l", "a", "t", "e", ",", " ", "1", ")", "\n", "P">>

HereDisk ==
    (<<"/", "w", "/", "t", "o", "p", ".", "t", "x", "t">> :> File_top) @@ (<<"/", "w", "/", "b", "o", "d", "y", ".", "t", "x", "t">> :> File_body)
    @@ (<<"/", "w", "/", "a", "r", "g", ".", "t", "x", "t">> :> File_arg) @@ (<<"/", "w", "/", "i", "f", ".", "t", "x", "t">> :> File_if)
    @@ (<<"/", "w", "/", "e", "v", "a", "l", ".", "t", "x", "t">> :> File_eval) @@ (<<"/", "w", "/", "s", "e", "t", ".", "t", "x", "t">> :> File_set)
    @@ (<<"/", "w", "/", "i", "n", "n", "e", "r", ".", "t", "x", "t">> :> File_inner)
    @@ (<<"/", "w", "/", "o", "u", "t", "e", "r", ".", "t", "x", "t">> :> File_outer)

Disk ==
    (<<"/", "w", "/", "d", ".", "t", "x", "t">> :> File_d) @@ (<<"/", "w", "/", "c", ".", "t", "x", "t">> :> File_c) @@ (<<"/", "w", "/", "s", ".", "t", "x", "t">> :> File_s)
    @@ (<<"/", "w", "/", "u", ".", "t", "x", "t">> :> File_u)
    @@ HereDisk

\* The files evaluated, as the caller names them.
HereFiles ==
    {<<"t", "o", "p", ".", "t", "x", "t">>, <<"b", "o", "d", "y", ".", "t", "x", "t">>, <<"a", "r", "g", ".", "t", "x", "t">>, <<"i", "f", ".", "t", "x", "t">>, <<"e", "v", "a", "l", ".", "t", "x", "t">>, <<"s", "e", "t", ".", "t", "x", "t">>, <<"i", "n", "n", "e", "r", ".", "t", "x", "t">>,
     <<"o", "u", "t", "e", "r", ".", "t", "x", "t">>}

\* A source with a here call that belongs to no file.
Source_here == <<"%", "d", "e", "f", "(", "x", ",", " ", "Y", ")", "%", "h", "e", "r", "e", "(", "x", ")">>

\* g defines m inside its call and exports it; w calls g and exports m again.
Source_export == <<"%", "d", "e", "f", "(", "g", ",", " ", "x", ",", " ", "%", "d", "e", "f", "(", "m", ",", " ", "p", ",", " ", "%", "(", "x", ")", "%", "(", "p", ")", ")", "%", "e", "x", "p", "o", "r", "t", "(", "m", ")", ")", "%", "d", "e", "f", "(", "w", ",", " ", "%", "g", "(", "B", ")", "%", "e", "x", "p", "o", "r", "t", "(", "m", ")", ")">>

\* f sets, defines (with def and pydef) and includes inside its call, and
\* exports v and im.
Source_scope ==
    <<"%", "d", "e", "f", "(", "f", ",", " ", "a", ",", " ", "%", "s", "e", "t", "(", "v", ",", " ", "%", "(", "a", ")", ")", "%", "s", "e", "t", "(", "u", ",", " ", "2", ")", "%", "d", "e", "f", "(", "h", ",", " ", "L", ")", "%", "p", "y", "d", "e", "f", "(", "k", ",", " ", "K", ")", "%", "i", "n", "c", "l", "u", "d", "e", "(", "d", ".", "t", "x", "t", ")", "%", "e", "x", "p", "o", "r", "t", "(", "v", ")", "%", "e", "x", "p", "o", "r", "t", "(", "i", "m", ")", "%", "h", "(", ")", ")">>

Source_globals == <<"%", "s", "e", "t", "(", "v", ",", " ", "0", ")", "%", "s", "e", "t", "(", "x", ",", " ", "G", ")">>

\* e fails inside its body.
Source_failing == <<"%", "d", "e", "f", "(", "e", ",", " ", "%", "n", "o", "p", "e", "(", ")", ")", "%", "e", "(", ")">>

\* p is called with its second argument reading a, the name of its first
\* parameter, which the caller has set.
Source_args == <<"%", "d", "e", "f", "(", "p", ",", " ", "a", ",", " ", "b", ",", " ", "%", "(", "a", ")", "%", "(", "b", ")", ")", "%", "s", "e", "t", "(", "a", ",", " ", "G", ")", "%", "p", "(", "1", ",", " ", "%", "(", "a", ")", ")">>

Sources ==
    {Source_export, Source_scope, Source_globals, Source_failing,
     <<"%", "g", "(", "A", ")", "%", "m", "(", "1", ")">>, <<"%", "w", "(", ")">>, <<"%", "m", "(", "2", ")">>, <<"%", "f", "(", "%", "s", "e", "t", "(", "q", ",", " ", "1", ")", "1", ")", "%", "(", "v", ")", "%", "(", "q", ")">>, <<"%", "h", "(", ")", "%", "i", "m", "(", "3", ")">>,
     <<"%", "i", "n", "c", "l", "u", "d", "e", "(", "c", ".", "t", "x", "t", ")">>, <<"%", "i", "n", "c", "l", "u", "d", "e", "(", "s", ".", "t", "x", "t", ")">>, <<"%", "i", "n", "c", "l", "u", "d", "e", "(", "d", ".", "t", "x", "t", ")", "%", "i", "n", "c", "l", "u", "d", "e", "(", ".", "/", "d", ".", "t", "x", "t", ")">>,
     <<"%", "i", "n", "c", "l", "u", "d", "e", "(", "u", ".", "t", "x", "t", ")">>, Source_args}

\* Most eval_string calls made on the evaluator.
MaxEvals == 3

\* The last call: its source and result, and how long the log was before it.
ELast(source, r) ==
    [source |-> source, out |-> r.out, err |-> r.err, logged |-> Len(evaluator.log)]

EInit ==
    /\ evaluator = NewEvaluator(Disk)
    /\ e_evals = 0
    /\ e_last = [source |-> <<>>, out |-> <<>>, err |-> NoEvalError, logged |-> 0]

EvalStringDone(source, r) ==
    /\ evaluator' = r.self
    /\ e_last' = ELast(source, r)
    /\ e_evals' = e_evals + 1

\* eval_string(source, None, evaluator)
EvalString(source) ==
    /\ e_evals < MaxEvals
    /\ EvalStringDone(source, eval_string(source, <<>>, evaluator))

\* eval_string(content of the file, Some(path), evaluator), as eval_file and
\* process_string call it.
EvalFile(path) ==
    /\ e_evals < MaxEvals
    /\ path_exists(evaluator.files, path)
    /\ EvalStringDone(evaluator.files[canonicalize(path)],
                      eval_string(evaluator.files[canonicalize(path)], <<path>>,
                                  evaluator))

(***************************************************************************)
(* Claims about the evaluator.                                             *)
(***************************************************************************)
\* The binding of a name in a map: <<>> when it has none.
Binding(map, n) == IF n \in DOMAIN map THEN <<map[n]>> ELSE <<>>

SameBindings(f1, f2, n) ==
    /\ Binding(f1.variables, n) = Binding(f2.variables, n)
    /\ Binding(f1.macros, n) = Binding(f2.macros, n)

FrameNames(f) == (DOMAIN f.variables) \cup (DOMAIN f.macros)

\* The j-th entry of the log is a user-macro call that returned a result.
ReturnedCall(j) ==
    /\ evaluator.log[j].ev = "call"
    /\ evaluator.log[j].err = NoEvalError

\* The names passed to export in the scope of the call logged at j.
ExportedIn(j) ==
    {evaluator.log[k].name :
        k \in {k \in (evaluator.log[j].start + 1)..(j - 1) :
                  /\ evaluator.log[k].ev = "export"
                  /\ Len(evaluator.log[k].state.scope_stack)
                         = Len(evaluator.log[j].before.scope_stack) + 1}}

\* The call logged at j left every frame of its caller as it was, but for
\* the names in exported in the caller's top frame.
CallerAsBefore(before, after, exported) ==
    /\ Len(after) = Len(before)
    /\ \A k \in 1..(Len(before) - 1) : after[k] = before[k]
    /\ \A n \in (FrameNames(before[Len(before)]) \cup FrameNames(after[Len(before)]))
                    \ exported :
           SameBindings(before[Len(before)], after[Len(before)], n)

\* C4: after a user-macro call returns successfully, the caller's frames
\* hold exactly the bindings they held before the call, but for the names
\* passed to export in the call's scope: what the call set, defined, bound
\* to its parameters or included and did not export is gone with its frame.
C4_ScopeIsolation ==
    \A j \in DOMAIN evaluator.log :
        ReturnedCall(j) =>
            CallerAsBefore(evaluator.log[j].before.scope_stack,
                           evaluator.log[j].after, ExportedIn(j))

\* A macro whose body comes from a file on disk.
IsIncluded(state, mac) ==
    state.source_manager.file_names[mac.body.src + 1] \in DOMAIN Disk

\* A call returned whose frame held variables and macros it did not export,
\* one of the macros from an included file, and that exported to its caller.
C4_Witness ==
    \E j \in DOMAIN evaluator.log :
        /\ ReturnedCall(j)
        /\ (DOMAIN evaluator.log[j].frame.variables) \ ExportedIn(j) # {}
        /\ \E n \in (DOMAIN evaluator.log[j].frame.macros) \ ExportedIn(j) :
               ~IsIncluded(evaluator.state, evaluator.log[j].frame.macros[n])
        /\ \E n \in DOMAIN evaluator.log[j].frame.macros :
               IsIncluded(evaluator.state, evaluator.log[j].frame.macros[n])
        /\ evaluator.log[j].after # evaluator.log[j].before.scope_stack

\* The names of the Var nodes under a node, read in the sources sm.
RECURSIVE VarNames(_, _)
VarNames(sm, node) ==
    (IF node.kind = "Var"
     THEN {Trim(node_text_in(get_source(sm, node.token.src), node.token))}
     ELSE {})
    \cup UNION {VarNames(sm, node.parts[k]) : k \in DOMAIN node.parts}

\* The variables that occur in the body of a macro and are not parameters.
FreeVars(sm, mac) ==
    VarNames(sm, mac.body) \ {mac.params[i] : i \in 1..Len(mac.params)}

\* No variable and no macro call under the node: the arguments of a call
\* with such a node have the same values in every scope.
RECURSIVE IsLiteral(_)
IsLiteral(node) ==
    /\ node.kind \notin {"Var", "Macro"}
    /\ \A k \in DOMAIN node.parts : IsLiteral(node.parts[k])

LiteralArgs(node) == \A k \in DOMAIN node.parts : IsLiteral(node.parts[k])

\* The i-th entry of the log is the export, from the scope of a user-macro
\* call, of a macro that def made in that scope and that has a free variable.
ExportOfDefined(i) ==
    /\ evaluator.log[i].ev = "export"
    /\ evaluator.log[i].name \in DOMAIN current_scope(evaluator.log[i].state).macros
    /\ current_scope(evaluator.log[i].state).macros[evaluator.log[i].name].exports = 0
    /\ FreeVars(evaluator.log[i].state.source_manager,
                current_scope(evaluator.log[i].state).macros[evaluator.log[i].name])
           # {}

\* The j-th entry of the log is a later call, with literal arguments, of an
\* exported copy of the macro exported at i.
CallOfExported(i, j) ==
    /\ i < j
    /\ evaluator.log[j].ev = "call"
    /\ evaluator.log[j].mac.exports > 0
    /\ evaluator.log[j].mac.origin
           = current_scope(evaluator.log[i].state).macros[evaluator.log[i].name].origin
    /\ LiteralArgs(evaluator.log[j].node)

\* The call logged at j made in the state of the export logged at i, the
\* sources those of the call.
CallAtExport(i, j) ==
    evaluate_macro_call(
        [state |-> [evaluator.log[i].state EXCEPT
                        !.source_manager = evaluator.log[j].before.source_manager],
         files |-> evaluator.files, log |-> <<>>, including |-> <<>>,
         evaluated |-> 0],
        evaluator.log[j].node, evaluator.log[j].name)

SameResult(r, call) == r.out = call.out /\ r.err = call.err

\* C5: a macro defined inside a user-macro call and exported, with a free
\* variable in its body, gives the same result when it is called after the
\* defining scope is popped as the same call gives in the defining scope at
\* the moment of the export.
C5_ExportFreezesFreeVariables ==
    \A i, j \in DOMAIN evaluator.log :
        (ExportOfDefined(i) /\ CallOfExported(i, j))
            => SameResult(CallAtExport(i, j), evaluator.log[j])

\* The i-th entry of the log is an include of a file that was found.
IsIncludeOf(i) == evaluator.log[i].ev = "include"

\* The file of the include is one whose include is in progress.
InProgress(inc) ==
    \E k \in 1..Len(inc.including) : inc.including[k] = canonicalize(inc.path)

\* C12: an include of a file is refused with CircularInclude exactly when
\* the file, by its canonical path and however the include spells it, is
\* one whose include is in progress; a file whose earlier include returned
\* is included again.
C12_CircularIncludeExactly ==
    \A i \in DOMAIN evaluator.log :
        IsIncludeOf(i) => (evaluator.log[i].circular <=> InProgress(evaluator.log[i]))

\* A file included again under the spelling it is in progress by is refused.
C12_SameSpellingRefused ==
    \E i \in DOMAIN evaluator.log :
        /\ IsIncludeOf(i)
        /\ evaluator.log[i].circular
        /\ InProgress(evaluator.log[i])

\* The i-th entry of the log is a here call that rewrote a file.
IsHere(i) == evaluator.log[i].ev = "here"

\* The call stands in a file on disk (and not in a string handed to
\* eval_string without a path).
InFile(h) == h.source \in DOMAIN h.before

\* The text of the call: from its special character to its ")".
CallText(h, text) == SubSeq(text, h.start + 1, h.end_pos)

\* The text up to the end of the rewritten call: the special character put
\* at the call's start and the expansion at its end.
WithCallRewritten(h, text) ==
    Take(text, h.start) \o <<"%">> \o CallText(h, text) \o h.expansion

\* C13: when a here call of a file is evaluated and its argument expands
\* to Y, the file on disk is rewritten so that the call `%here(x)` becomes
\* `%%here(x)Y`, the special character put at the call's start byte and Y at
\* its end byte, and the call returns Terminate (every logged here call does).
C13_HereRewritesCall ==
    \A i \in DOMAIN evaluator.log :
        (IsHere(i) /\ InFile(evaluator.log[i])) =>
            StartsWith(evaluator.log[i].after[evaluator.log[i].source],
                       WithCallRewritten(evaluator.log[i],
                                         evaluator.log[i].before[evaluator.log[i].source]))

\* The text as modify_source leaves it: as above, and what stood between
\* the call's end and the end of its line, the newline too, removed.
WithLineEndRemoved(h, text) ==
    WithCallRewritten(h, text)
    \o Drop(text, after_newline(text, line_end_from(text, h.end_pos)))

\* What holds of a here call that stands in the file handed to eval_string:
\* that file is rewritten as above, the rest of the call's line removed.
HereRewritesEvaluatedFile ==
    \A i \in DOMAIN evaluator.log :
        (/\ IsHere(i)
         /\ evaluator.log[i].source = canonicalize(evaluator.log[i].path)) =>
            /\ StartsWith(CallText(evaluator.log[i],
                                   evaluator.log[i].before[evaluator.log[i].source]),
                          <<"%", "h", "e", "r", "e", "(">>)
            /\ evaluator.log[i].after[evaluator.log[i].source] =
                   WithLineEndRemoved(evaluator.log[i],
                                      evaluator.log[i].before[evaluator.log[i].source])

\* A here call in an included file: the file it stands in is not the file
\* rewritten.
HereInIncludedFile ==
    \E i \in DOMAIN evaluator.log :
        /\ IsHere(i) /\ InFile(evaluator.log[i])
        /\ evaluator.log[i].source # canonicalize(evaluator.log[i].path)
        /\ evaluator.log[i].after[evaluator.log[i].source] =
               evaluator.log[i].before[evaluator.log[i].source]

\* The i-th entry of the log is a here call made, and its file rewritten,
\* during the last eval_string call.
IsHereOfLast(i) == i > e_last.logged /\ IsHere(i)

\* C14: when a here call rewrites its file, at whatever depth it stands (in
\* the body or an argument of a user macro, in a branch of if, under eval,
\* in an included file), the top-level evaluation returns Terminate, with
\* no output and no other kind of error, and no node is evaluated after
\* the call.
C14_TerminatePropagates ==
    \A i \in DOMAIN evaluator.log :
        IsHereOfLast(i) =>
            /\ e_last.err.kind = "Terminate"
            /\ e_last.out = <<>>
            /\ evaluator.evaluated = evaluator.log[i].evaluated

\* C14's case: the here call of an included file, the including file having
\* more to evaluate behind the include.
C14_Witness ==
    /\ e_last.source = File_outer
    /\ e_last.err.kind = "Terminate"
    /\ \E i \in DOMAIN evaluator.log :
           /\ IsHereOfLast(i)
           /\ evaluator.log[i].source = canonicalize(<<"i", "n", "n", "e", "r", ".", "t", "x", "t">>)
           /\ evaluator.state.open_includes # {}

\* The here call of a macro's body, reached through the call of the macro.
C14_InBody ==
    /\ e_last.source = File_body
    /\ e_last.err.kind = "Terminate"
    /\ \E i \in DOMAIN evaluator.log : IsHereOfLast(i)
    /\ Len(evaluator.state.scope_stack) = 2

\* The i-th entry of the log is an include that began (found, not refused),
\* and the j-th the return of an include.
IsBeginOf(i, path) ==
    /\ IsIncludeOf(i) /\ ~evaluator.log[i].circular /\ evaluator.log[i].path = path

IsReturnOf(j, path) ==
    evaluator.log[j].ev = "included" /\ evaluator.log[j].path = path

\* Before the i-th entry an include of path began and has not returned with
\* success: it is in progress or it failed.
NotReturnedOk(i, path) ==
    \E b \in 1..(i - 1) :
        /\ IsBeginOf(b, path)
        /\ \A j \in (b + 1)..(i - 1) : IsReturnOf(j, path) => ~evaluator.log[j].ok

\* The paths whose include failed.
FailedIncludes ==
    {evaluator.log[j].path :
        j \in {k \in DOMAIN evaluator.log :
                  evaluator.log[k].ev = "included" /\ ~evaluator.log[k].ok}}

\* C22: the path of an included file leaves open_includes exactly when its
\* include returns with success: between evaluations the set holds the
\* paths whose include failed and no other, and an include is refused with
\* CircularInclude exactly when an include of the same path began before
\* and has not returned with success, be it in progress or failed.
C22_OpenIncludesKeepFailed ==
    /\ evaluator.state.open_includes = FailedIncludes
    /\ \A i \in DOMAIN evaluator.log :
           IsIncludeOf(i) =>
               (evaluator.log[i].circular <=> NotReturnedOk(i, evaluator.log[i].path))

\* C22's case: a file whose include failed is included again when no
\* include is in progress, and refused.
C22_Witness ==
    /\ e_last.err.kind = "CircularInclude"
    /\ \E i \in DOMAIN evaluator.log :
           /\ i > e_last.logged
           /\ IsIncludeOf(i) /\ evaluator.log[i].circular
           /\ evaluator.log[i].including = <<>>
           /\ evaluator.log[i].path \in FailedIncludes

\* An include that returned with success, its path no longer in the set.
C22_RemovedOnSuccess ==
    \E j \in DOMAIN evaluator.log :
        /\ evaluator.log[j].ev = "included" /\ evaluator.log[j].ok
        /\ evaluator.log[j].path \notin evaluator.state.open_includes

\* The same after an included file that did not parse.
C22_ParseFailureKept ==
    /\ e_last.err.kind = "CircularInclude"
    /\ e_last.source = <<"%", "i", "n", "c", "l", "u", "d", "e", "(", "u", ".", "t", "x", "t", ")">>
    /\ path_buf(<<".", "/", "u", ".", "t", "x", "t">>) \in evaluator.state.open_includes

\* The calls of user macros that have returned, by their place in the log.
ReturnedCalls == {i \in DOMAIN evaluator.log : evaluator.log[i].ev = "call"}

\* C24: whenever evaluate_macro_call for a user macro returns, with a result
\* or with an error raised while evaluating an argument or the body, the
\* scope stack is as deep as it was before the call.
C24_ScopeStackBalanced ==
    \A i \in ReturnedCalls :
        Len(evaluator.log[i].after) = Len(evaluator.log[i].before.scope_stack)

\* The calls that returned a result leave the stack as deep as they found it.
ScopeStackBalancedOnOk ==
    \A i \in ReturnedCalls :
        evaluator.log[i].err = NoEvalError
        => Len(evaluator.log[i].after) = Len(evaluator.log[i].before.scope_stack)

\* A call that failed left its frame on the stack, and the evaluator is
\* used again with it.
C24_FrameLeftBehind ==
    /\ e_evals >= 2
    /\ Len(evaluator.state.scope_stack) > 1
    /\ \E i \in ReturnedCalls :
           /\ evaluator.log[i].err # NoEvalError
           /\ Len(evaluator.log[i].after) = Len(evaluator.log[i].before.scope_stack) + 1

\* A call of a macro under the node.
RECURSIVE HasCall(_)
HasCall(node) ==
    \/ node.kind = "Macro"
    \/ \E k \in DOMAIN node.parts : HasCall(node.parts[k])

\* The argument nodes of the call logged at j.
ArgNodes(j) == SelectSeq(evaluator.log[j].node.parts, is_param)

\* The j-th entry of the log is a call that returned a result, whose
\* arguments and body call no macro: the arguments change no state, and the
\* frame of the callee at the end holds the parameters as they were bound.
PlainCall(j) ==
    /\ ReturnedCall(j)
    /\ ~HasCall(evaluator.log[j].mac.body)
    /\ \A k \in DOMAIN ArgNodes(j) : ~HasCall(ArgNodes(j)[k])

\* The i-th argument of the call logged at j, evaluated with the bindings
\* of the caller: in the state the call was made in.
ArgInCaller(j, i) ==
    evaluate([state |-> evaluator.log[j].before, files |-> evaluator.files,
              log |-> <<>>, including |-> <<>>, evaluated |-> 0],
             ArgNodes(j)[i]).out

BoundTo(j, i) == evaluator.log[j].frame.variables[evaluator.log[j].mac.params[i]]

\* C25: in a user-macro call, the value bound to each formal parameter is
\* its argument evaluated with the caller's bindings: the callee's frozen
\* arguments and its parameters bound so far are not visible to it.
C25_ArgsInCallerScope ==
    \A j \in DOMAIN evaluator.log :
        PlainCall(j) =>
            \A i \in 1..Len(evaluator.log[j].mac.params) :
                i <= Len(ArgNodes(j)) => BoundTo(j, i) = ArgInCaller(j, i)

\* The call has an argument that reads a variable.
RECURSIVE HasVar(_)
HasVar(node) ==
    \/ node.kind = "Var"
    \/ \E k \in DOMAIN node.parts : HasVar(node.parts[k])

\* The first argument of a macro with no frozen arguments has the value it
\* has in the caller.
FirstArgInCallerScope ==
    \A j \in DOMAIN evaluator.log :
        (/\ PlainCall(j)
         /\ evaluator.log[j].mac.params # <<>>
         /\ ArgNodes(j) # <<>>
         /\ DOMAIN evaluator.log[j].mac.frozen_args = {})
            => BoundTo(j, 1) = ArgInCaller(j, 1)

\* A later argument that reads the name of an earlier parameter got the
\* value just bound to that parameter, not the caller's.
C25_ReadsEarlierParameter ==
    \E j \in DOMAIN evaluator.log :
        /\ PlainCall(j)
        /\ Len(evaluator.log[j].mac.params) >= 2
        /\ Len(ArgNodes(j)) >= 2
        /\ HasVar(ArgNodes(j)[2])
        /\ BoundTo(j, 2) = BoundTo(j, 1)
        /\ ArgInCaller(j, 2) # BoundTo(j, 2)

\* The exports logged of the name from a scope of the depth.
ExportsFrom(name, depth) ==
    {k \in DOMAIN evaluator.log :
        /\ evaluator.log[k].ev = "export"
        /\ evaluator.log[k].name = name
        /\ Len(evaluator.log[k].state.scope_stack) = depth}

\* The k-th entry of the log is the last export of the name from a scope of
\* the depth, and the macro exported carried frozen_args: it had been
\* exported before.
LastReExport(k, name, depth) ==
    /\ k \in ExportsFrom(name, depth)
    /\ \A k2 \in ExportsFrom(name, depth) : k2 <= k
    /\ name \in DOMAIN current_scope(evaluator.log[k].state).macros
    /\ current_scope(evaluator.log[k].state).macros[name].exports >= 1

\* mac is the copy the export logged at k made of the macro.
ExportedCopy(mac, k) ==
    /\ mac.origin
           = current_scope(evaluator.log[k].state).macros[evaluator.log[k].name].origin
    /\ mac.exports
           = current_scope(evaluator.log[k].state).macros[evaluator.log[k].name].exports + 1

KeepsFrozen(mac, exported) ==
    \A n \in DOMAIN exported.frozen_args :
        /\ n \in DOMAIN mac.frozen_args
        /\ mac.frozen_args[n] = exported.frozen_args[n]

\* C26: a macro that carries frozen_args and is exported again from the
\* scope that received it keeps the values frozen by the first export, also
\* when the frozen variable is not bound in the re-exporting scope.
C26_ReExportKeepsFrozen ==
    \A d \in DOMAIN evaluator.state.scope_stack :
        \A name \in DOMAIN evaluator.state.scope_stack[d].macros :
            \A k \in DOMAIN evaluator.log :
                (/\ LastReExport(k, name, d + 1)
                 /\ ExportedCopy(evaluator.state.scope_stack[d].macros[name], k))
                    => KeepsFrozen(evaluator.state.scope_stack[d].macros[name],
                                   current_scope(evaluator.log[k].state).macros[name])

\* m, frozen with x = B by its first export and exported again by w, is
\* called from the outermost scope and gives 2: the B is gone.
C26_FrozenValueLost ==
    /\ e_last.source = <<"%", "m", "(", "2", ")">>
    /\ e_last.out = <<"2">>
    /\ e_last.err = NoEvalError
    /\ <<"m">> \in DOMAIN evaluator.state.scope_stack[1].macros
    /\ evaluator.state.scope_stack[1].macros[<<"m">>].exports = 2
    /\ \E k \in DOMAIN evaluator.log :
           /\ LastReExport(k, <<"m">>, 2)
           /\ current_scope(evaluator.log[k].state).macros[<<"m">>].frozen_args[<<"x">>] = <<"B">>

\* The here call logged stands in the file handed to eval_string, the file
\* it rewrites.
InEvaluatedFile(h) == h.source = canonicalize(h.path)

\* The text with the two insertions and nothing else changed: what stands
\* behind the call's end byte is kept.
WithTwoInsertions(h, text) == WithCallRewritten(h, text) \o Drop(text, h.end_pos)

\* C29: the file written by a here call is the original file with two
\* insertions, the special character at the call's start byte and the
\* expansion at its end byte: every byte of the original is kept, in
\* order, the text behind the call on its line and the newline too.
C29_HereKeepsRestOfFile ==
    \A i \in DOMAIN evaluator.log :
        (IsHere(i) /\ InEvaluatedFile(evaluator.log[i])) =>
            evaluator.log[i].after[evaluator.log[i].source] =
                WithTwoInsertions(evaluator.log[i],
                                  evaluator.log[i].before[evaluator.log[i].source])

\* top.txt rewritten: the B behind the call and the newline of its line
\* are gone.
C29_RestOfLineLost ==
    \E i \in DOMAIN evaluator.log :
        /\ IsHere(i)
        /\ evaluator.log[i].source = <<"/", "w", "/", "t", "o", "p", ".", "t", "x", "t">>
        /\ InEvaluatedFile(evaluator.log[i])
        /\ evaluator.log[i].before[<<"/", "w", "/", "t", "o", "p", ".", "t", "x", "t">>] = File_top
        /\ evaluator.log[i].after[<<"/", "w", "/", "t", "o", "p", ".", "t", "x", "t">>]
               = <<"%", "d", "e", "f", "(", "x", ",", " ", "a", ",", " ", "Y", "%", "(", "a", ")", ")", "A", "%", "%", "h", "e", "r", "e", "(", "x", ",", " ", "1", ")", "Y", "1", "C", "%", "s", "e", "t", "(", "l", "a", "t", "e", ",", " ", "1", ")">>

(***************************************************************************)
(* Inputs built from pieces of the macro syntax, each evaluated on a new  *)
(* evaluator, and what stands open at their end.                           *)
(***************************************************************************)
\* test_def_macro_with_params, with one formal parameter less.
Source_greet == <<"%", "d", "e", "f", "(", "g", "r", "e", "e", "t", ",", " ", "n", "a", "m", "e", ",", " ", "H", "e", "l", "l", "o", ",", " ", "%", "(", "n", "a", "m", "e", ")", "!", ")", "\n", "%", "g", "r", "e", "e", "t", "(", "W", "o", "r", "l", "d", ")">>

Pieces == {<<" ">>, <<"\n">>, <<"a">>, <<"%", "/", "*">>, <<"%", "*", "/">>, <<"%", "/", "/">>, <<"%", "-", "-">>, <<"%", "m", "(">>, <<")">>, <<",">>}

\* Most pieces in an input.
MaxPieces == 4

RECURSIVE JoinFrom(_, _)
JoinFrom(pieces, k) ==
    IF k > Len(pieces) THEN <<>> ELSE pieces[k] \o JoinFrom(pieces, k + 1)

Inputs ==
    {Source_greet}
    \cup {JoinFrom(ps, 1) : ps \in UNION {[1..n -> Pieces] : n \in 0..MaxPieces}}

\* eval_string(input, None, evaluator) on the new evaluator.
EvalInput(input) ==
    /\ e_evals = 0
    /\ EvalStringDone(input, eval_string(input, <<>>, evaluator))

\* Where a reading of the input by the syntax stands: in plain text, in a
\* line comment, in a block comment depth deep, in the argument list of a
\* macro call, or ("other") somewhere this reading does not follow; out is
\* the whitespace met outside comments, text whether anything else was met
\* there.
Reading(mode, depth, out, text) ==
    [mode |-> mode, depth |-> depth, out |-> out, text |-> text]

RECURSIVE Scan(_, _, _)
ScanPlain(s, i, r) ==
    IF StartsWithAt(s, i, <<"%", "/", "*">>)
    THEN Scan(s, i + 3, Reading("comment", 1, r.out, r.text))
    ELSE IF StartsWithAt(s, i, <<"%", "/", "/">>) \/ StartsWithAt(s, i, <<"%", "-", "-">>)
    THEN Scan(s, i + 3, Reading("line", 0, r.out, r.text))
    ELSE IF StartsWithAt(s, i, <<"%", "m", "(">>)
    THEN Scan(s, i + 3, Reading("macro", 0, r.out, TRUE))
    ELSE IF s[i] = "%" THEN Reading("other", 0, r.out, TRUE)
    ELSE IF IsWhite(s[i])
    THEN Scan(s, i + 1, Reading("plain", 0, r.out \o <<s[i]>>, r.text))
    ELSE Scan(s, i + 1, Reading("plain", 0, r.out, TRUE))

ScanComment(s, i, r) ==
    IF StartsWithAt(s, i, <<"%", "/", "*">>)
    THEN Scan(s, i + 3, Reading("comment", r.depth + 1, r.out, r.text))
    ELSE IF StartsWithAt(s, i, <<"%", "*", "/">>)
    THEN Scan(s, i + 3, Reading(IF r.depth = 1 THEN "plain" ELSE "comment",
                                r.depth - 1, r.out, r.text))
    ELSE Scan(s, i + 1, r)

ScanMacro(s, i, r) ==
    IF s[i] = ")" THEN Scan(s, i + 1, Reading("plain", 0, r.out, TRUE))
    ELSE IF s[i] = "%" THEN Reading("other", 0, r.out, TRUE)
    ELSE Scan(s, i + 1, r)

ScanLine(s, i, r) ==
    IF s[i] = "\n" THEN Scan(s, i + 1, Reading("plain", 0, r.out, r.text))
    ELSE Scan(s, i + 1, r)

Scan(s, i, r) ==
    IF i > Len(s) THEN r
    ELSE IF r.mode = "plain" THEN ScanPlain(s, i, r)
    ELSE IF r.mode = "comment" THEN ScanComment(s, i, r)
    ELSE IF r.mode = "macro" THEN ScanMacro(s, i, r)
    ELSE ScanLine(s, i, r)

ReadingOf(s) == Scan(s, 1, Reading("plain", 0, <<>>, FALSE))

\* The input ends in the argument list of a macro call or in a block comment.
OpenAtEnd(s) == ReadingOf(s).mode \in {"macro", "comment"}

\* The input is whitespace, line comments and closed block comments only.
CommentOnly(s) == ReadingOf(s).mode \in {"plain", "line"} /\ ~ReadingOf(s).text

\* C18 as stated: the input `%def(greet, name, Hello, %(name)!)`, a
\* newline, `%greet(World)` evaluates to a newline and `Hello, World!`.
C18_GreetExample ==
    e_last.source = Source_greet =>
        e_last.err.kind = "None" /\ e_last.out = <<"\n", "H", "e", "l", "l", "o", ",", " ", "W", "o", "r", "l", "d", "!">>

\* C18: the input `%def(greet, name, Hello, %(name)!)`, a newline,
\* `%greet(World)` evaluates to a newline and `World!`: every argument of
\* def between the name and the last is a formal parameter, `Hello` too, and
\* the body is the last argument, `%(name)!`.
C18_GreetYieldsWorld ==
    e_last.source = Source_greet =>
        e_last.err.kind = "None" /\ e_last.out = <<"\n", "W", "o", "r", "l", "d", "!">>

\* C18's case: the input evaluated, greet defined with two parameters.
C18_Witness ==
    /\ e_last.source = Source_greet
    /\ e_last.out = <<"\n", "W", "o", "r", "l", "d", "!">>
    /\ evaluator.state.scope_stack[1].macros[<<"g", "r", "e", "e", "t">>].params = <<<<"n", "a", "m", "e">>, <<"H", "e", "l", "l", "o">>>>

\* C19: for every input that ends inside the argument list of a macro call
\* or inside a block comment, the lexer has at least one entry in its errors
\* list, and the evaluation of the input fails.
C19_EofInsideReported ==
    OpenAtEnd(e_last.source) =>
        /\ run(NewLexer(e_last.source, 0)).errors # <<>>
        /\ e_last.err.kind # "None"

\* The half that holds: an input that ends inside a block comment.
UnclosedCommentReported ==
    ReadingOf(e_last.source).mode = "comment" =>
        /\ run(NewLexer(e_last.source, 0)).errors # <<>>
        /\ e_last.err.kind = "ParseError"

\* An input that ends inside an argument list: no lexer error, and the call
\* is evaluated as if it were closed.
C19_UnclosedCallEvaluated ==
    /\ e_last.source = <<"a", "%", "m", "(", "a", ",">>
    /\ run(NewLexer(e_last.source, 0)).errors = <<>>
    /\ e_last.err.kind = "UndefinedMacro"

C20_Nested ==
    /\ e_last.source = <<"%", "/", "*", "%", "/", "*", "%", "*", "/", "%", "*", "/">>
    /\ e_last.err.kind = "None"
    /\ e_last.out = <<>>

C20_LineComment ==
    /\ e_last.source = <<"%", "/", "/", "a", "\n", "\n">>
    /\ e_last.err.kind = "None"
    /\ e_last.out = <<"\n">>

(***************************************************************************)
(* Specifications: one per component, the other components idle.           *)
(***************************************************************************)
vars == <<wvars, svars, xvars, lvars, evars>>

\* No writer at work: one made in safe mode and not called.
WIdle == WInit /\ safe

WriterStep ==
    \/ \E n \in WriterChunkNames, c \in Contents :
           WriteChunk(n, c) /\ UNCHANGED <<svars, xvars, lvars, evars>>
    \/ \E f \in WriterPaths : BeforeWrite(f) /\ UNCHANGED <<svars, xvars, lvars, evars>>
    \/ \E f \in WriterPaths, c \in Contents :
           WriteStaged(f, c) /\ UNCHANGED <<svars, xvars, lvars, evars>>
    \/ \E f \in WriterPaths : AfterWrite(f) /\ UNCHANGED <<svars, xvars, lvars, evars>>
    \/ \E f \in WriterPaths, c \in Contents :
           ExternalModify(f, c) /\ UNCHANGED <<svars, xvars, lvars, evars>>

StoreStep ==
    \/ \E t \in Texts : Read(t) /\ UNCHANGED <<wvars, xvars, lvars, evars>>
    \/ \E n \in ExpandNames, i \in Indents :
           Expand(n, i) /\ UNCHANGED <<wvars, xvars, lvars, evars>>
    \/ Reset /\ UNCHANGED <<wvars, xvars, lvars, evars>>

DepthStep ==
    \/ \E t \in DepthTexts :
           ReadBegin(t, add_file_name(store, t.file_name))
               /\ UNCHANGED <<wvars, lvars, evars>>
    \/ ReadLine /\ UNCHANGED <<wvars, lvars, evars>>
    \/ ReadEnd /\ UNCHANGED <<wvars, lvars, evars>>
    \/ \E n \in DepthNames, i \in Indents :
           ExpandBegin(n, i) /\ UNCHANGED <<wvars, lvars, evars>>
    \/ ExpandReference /\ UNCHANGED <<wvars, lvars, evars>>
    \/ ExpandPlainLine /\ UNCHANGED <<wvars, lvars, evars>>
    \/ ExpandEndDef /\ UNCHANGED <<wvars, lvars, evars>>
    \/ ExpandReturns /\ UNCHANGED <<wvars, lvars, evars>>

\* The steps of an expansion in progress.  expand runs to its end on the
\* thread that called it: a step that can be taken is taken.
ExpandStep ==
    \/ ExpandReference /\ UNCHANGED <<wvars, lvars, evars>>
    \/ ExpandPlainLine /\ UNCHANGED <<wvars, lvars, evars>>
    \/ ExpandEndDef /\ UNCHANGED <<wvars, lvars, evars>>
    \/ ExpandReturns /\ UNCHANGED <<wvars, lvars, evars>>

\* Reading and expansion step by step, of the texts with cycles.
TermStep ==
    \/ \E t \in TermTexts :
           ReadBegin(t, add_file_name(store, t.file_name))
               /\ UNCHANGED <<wvars, lvars, evars>>
    \/ ReadLine /\ UNCHANGED <<wvars, lvars, evars>>
    \/ ReadEnd /\ UNCHANGED <<wvars, lvars, evars>>
    \/ \E n \in TermNames, i \in Indents :
           ExpandBegin(n, i) /\ UNCHANGED <<wvars, lvars, evars>>
    \/ ExpandStep

LexerStep ==
    \/ RunEof /\ UNCHANGED <<wvars, svars, xvars, evars>>
    \/ RunBlockState /\ UNCHANGED <<wvars, svars, xvars, evars>>
    \/ RunMacroState /\ UNCHANGED <<wvars, svars, xvars, evars>>
    \/ RunCommentState /\ UNCHANGED <<wvars, svars, xvars, evars>>

EvalStep == \E source \in Sources : EvalString(source) /\ UNCHANGED <<wvars, svars, xvars, lvars>>

HereStep ==
    \/ \E path \in HereFiles :
           EvalFile(path) /\ UNCHANGED <<wvars, svars, xvars, lvars>>
    \/ EvalString(Source_here) /\ UNCHANGED <<wvars, svars, xvars, lvars>>

Init == WInit /\ SInit /\ XIdle /\ LIdle /\ EInit

InputStep == \E input \in Inputs : EvalInput(input) /\ UNCHANGED <<wvars, svars, xvars, lvars>>

Next ==
    WriterStep \/ StoreStep \/ DepthStep \/ TermStep \/ LexerStep \/ EvalStep \/ HereStep
        \/ InputStep

Spec == Init /\ [][Next]_vars

InitWriter == WInit /\ SInit /\ XIdle /\ LIdle /\ EInit
SpecWriter == InitWriter /\ [][WriterStep]_vars

InitStore == WIdle /\ SInit /\ XIdle /\ LIdle /\ EInit
SpecStore == InitStore /\ [][StoreStep]_vars

InitDepth == WIdle /\ SInit /\ XIdle /\ LIdle /\ EInit
SpecDepth == InitDepth /\ [][DepthStep]_vars

InitTerm == WIdle /\ SInit /\ XIdle /\ LIdle /\ EInit
SpecTerm == InitTerm /\ [][TermStep]_vars /\ WF_vars(ExpandStep)

InitLexer == WIdle /\ SInit /\ XIdle /\ LInit /\ EInit
SpecLexer == InitLexer /\ [][LexerStep]_vars

InitEval == WIdle /\ SInit /\ XIdle /\ LIdle /\ EInit
SpecEval == InitEval /\ [][EvalStep]_vars

InitHere == WIdle /\ SInit /\ XIdle /\ LIdle /\ EInit
SpecHere == InitHere /\ [][HereStep]_vars

InitInput == WIdle /\ SInit /\ XIdle /\ LIdle /\ EInit
SpecInput == InitInput /\ [][InputStep]_vars
====
